---- MODULE Spec2Model ----
(***************************************************************************)
(* A model of strong-remoting's REST adapter (lib/rest-adapter.js): route  *)
(* derivation (getRoutes, normalizeHttpPath, joinPaths, RestClass,         *)
(* RestMethod), route ranking (sortRoutes), the route table built by       *)
(* createHandler, and the per-request invocation pipeline (_invokeMethod). *)
(*                                                                         *)
(* JavaScript strings are modelled as sequences of one-character strings,  *)
(* so that split, slice, concatenation, case mapping and the code-unit     *)
(* ordering of < and > are computed, not assumed.                          *)
(***************************************************************************)
EXTENDS Integers, Sequences, FiniteSets, TLC

(***************************************************************************)
(* Strings                                                                 *)
(***************************************************************************)

\* The characters used by the model, in ascending UTF-16 code-unit order.
CharOrder ==
  << " ", "-", "/", ":",
     "A", "B", "C", "D", "E", "G", "L", "O", "P", "T", "U", "W", "_",
     "a", "b", "c", "d", "e", "g", "h", "i", "l", "m", "n", "o", "p", "r", "s",
     "t", "u", "w", "y" >>

\* Rank of a character in code-unit order (order-isomorphic to charCodeAt).
CodeOf == [c \in {CharOrder[i] : i \in 1..Len(CharOrder)} |->
             CHOOSE i \in 1..Len(CharOrder) : CharOrder[i] = c]

Code(c) == CodeOf[c]

\* String.prototype.toLowerCase on one character.
LowerChar(c) ==
  CASE c = "A" -> "a" [] c = "B" -> "b" [] c = "C" -> "c" [] c = "D" -> "d"
    [] c = "E" -> "e" [] c = "G" -> "g" [] c = "L" -> "l" [] c = "O" -> "o" [] c = "P" -> "p"
    [] c = "T" -> "t" [] c = "U" -> "u" [] c = "W" -> "w" [] OTHER -> c

IsUpper(c) == LowerChar(c) # c

\* String.prototype.toLowerCase.
ToLowerCase(s) == [i \in 1..Len(s) |-> LowerChar(s[i])]

\* JavaScript's s < t on strings: lexicographic by code unit, a proper
\* prefix is smaller.
RECURSIVE StrLess(_, _)
StrLess(s, t) ==
  IF t = <<>> THEN FALSE
  ELSE IF s = <<>> THEN TRUE
  ELSE IF Code(Head(s)) < Code(Head(t)) THEN TRUE
  ELSE IF Code(Head(s)) > Code(Head(t)) THEN FALSE
  ELSE StrLess(Tail(s), Tail(t))

StrGreater(s, t) == StrLess(t, s)

\* Index of the first "/" in s, or 0.
FirstSlash(s) ==
  IF \E i \in 1..Len(s) : s[i] = "/"
  THEN CHOOSE i \in 1..Len(s) : s[i] = "/" /\ \A j \in 1..(i - 1) : s[j] # "/"
  ELSE 0

\* String.prototype.split('/'): '' gives [''], '/a' gives ['', 'a'].
RECURSIVE Split(_)
Split(s) ==
  LET k == FirstSlash(s) IN
  IF k = 0 THEN << s >>
  ELSE << SubSeq(s, 1, k - 1) >> \o Split(SubSeq(s, k + 1, Len(s)))

\* s.indexOf(c) > -1
Contains(s, c) == \E i \in 1..Len(s) : s[i] = c

\* s contains the two-character substring '//'.
HasDoubleSlash(s) == \E i \in 1..(Len(s) - 1) : s[i] = "/" /\ s[i + 1] = "/"

\* All strings over alphabet of length at most n.
StringsUpTo(alphabet, n) == UNION {[1..k -> alphabet] : k \in 0..n}

(***************************************************************************)
(* sortRoutes                                                              *)
(***************************************************************************)

DEL == << "d", "e", "l" >>
DELETE == << "d", "e", "l", "e", "t", "e" >>
ALL == << "a", "l", "l" >>
GET == << "g", "e", "t" >>
PUT == << "p", "u", "t" >>

\* Lines 255-264: lower-case the verb and map 'del' to 'delete'.
NormVerb(verb) ==
  LET v == ToLowerCase(verb) IN IF v = DEL THEN DELETE ELSE v

\* p[i][0] === ':' (undefined for an empty segment, so false).
IsWildcard(seg) == seg # <<>> /\ seg[1] = ":"

\* Lines 280-299: the loop over the common parts; 0 when no part decides.
RECURSIVE ComparePartsFrom(_, _, _, _)
ComparePartsFrom(p1, p2, i, len) ==
  IF i > len THEN 0
  ELSE IF p1[i] = <<>> /\ p2[i] # <<>> THEN 1
  ELSE IF p1[i] # <<>> /\ p2[i] = <<>> THEN -1
  ELSE IF IsWildcard(p1[i]) /\ ~IsWildcard(p2[i]) THEN 1
  ELSE IF ~IsWildcard(p1[i]) /\ IsWildcard(p2[i]) THEN -1
  ELSE IF StrGreater(p1[i], p2[i]) THEN 1
  ELSE IF StrLess(p1[i], p2[i]) THEN -1
  ELSE ComparePartsFrom(p1, p2, i + 1, len)

Min(x, y) == IF x < y THEN x ELSE y

\* Lines 272-302: compare two paths part by part.
ComparePaths(path1, path2) ==
  LET p1 == Split(path1)
      p2 == Split(path2)
      len == Min(Len(p1), Len(p2))
      c == ComparePartsFrom(p1, p2, 1, len)
  IN  IF c # 0 THEN c ELSE Len(p2) - Len(p1)

\* Mutant: the wildcard rule is dropped.
RECURSIVE ComparePartsNoWildcard(_, _, _, _)
ComparePartsNoWildcard(p1, p2, i, len) ==
  IF i > len THEN 0
  ELSE IF p1[i] = <<>> /\ p2[i] # <<>> THEN 1
  ELSE IF p1[i] # <<>> /\ p2[i] = <<>> THEN -1
  ELSE IF StrGreater(p1[i], p2[i]) THEN 1
  ELSE IF StrLess(p1[i], p2[i]) THEN -1
  ELSE ComparePartsNoWildcard(p1, p2, i + 1, len)

sortRoutesNoWildcard(r1, r2) ==
  LET verb1 == NormVerb(r1.route.verb)
      verb2 == NormVerb(r2.route.verb)
      p1 == Split(r1.route.path)
      p2 == Split(r2.route.path)
      c == ComparePartsNoWildcard(p1, p2, 1, Min(Len(p1), Len(p2)))
  IN  IF StrGreater(verb1, verb2) THEN -1
      ELSE IF StrLess(verb1, verb2) THEN 1
      ELSE IF c # 0 THEN c ELSE Len(p2) - Len(p1)

\* Mutant: verbs compared ascending.
sortRoutesVerbAscending(r1, r2) ==
  LET verb1 == NormVerb(r1.route.verb)
      verb2 == NormVerb(r2.route.verb)
  IN  IF StrGreater(verb1, verb2) THEN 1
      ELSE IF StrLess(verb1, verb2) THEN -1
      ELSE ComparePaths(r1.route.path, r2.route.path)

\* Mutant: on a tie of the common parts the first route always wins.
sortRoutesNoLength(r1, r2) ==
  LET verb1 == NormVerb(r1.route.verb)
      verb2 == NormVerb(r2.route.verb)
      p1 == Split(r1.route.path)
      p2 == Split(r2.route.path)
      c == ComparePartsFrom(p1, p2, 1, Min(Len(p1), Len(p2)))
  IN  IF StrGreater(verb1, verb2) THEN -1
      ELSE IF StrLess(verb1, verb2) THEN 1
      ELSE IF c # 0 THEN c ELSE IF Len(p1) = Len(p2) THEN 0 ELSE -1

\* Lines 251-303. r1, r2 are entries {route: {verb, path}, method}.
sortRoutes(r1, r2) ==
  LET verb1 == NormVerb(r1.route.verb)
      verb2 == NormVerb(r2.route.verb)
  IN  IF StrGreater(verb1, verb2) THEN -1
      ELSE IF StrLess(verb1, verb2) THEN 1
      ELSE ComparePaths(r1.route.path, r2.route.path)

(***************************************************************************)
(* joinPaths                                                               *)
(***************************************************************************)

Slash == << "/" >>

\* Mutant: the two-slash case keeps both slashes.
joinPathsKeepBoth(left, right) ==
  IF left = <<>> THEN right
  ELSE IF right = <<>> \/ right = Slash THEN left
  ELSE IF left[Len(left)] = "/" \/ right[1] = "/" THEN left \o right
  ELSE left \o Slash \o right

\* Lines 759-770.
joinPaths(left, right) ==
  IF left = <<>> THEN right
  ELSE IF right = <<>> \/ right = Slash THEN left
  ELSE LET glue == << left[Len(left)], right[1] >> IN
       IF glue = << "/", "/" >> THEN left \o Tail(right)
       ELSE IF glue[1] = "/" \/ glue[2] = "/" THEN left \o right
       ELSE left \o Slash \o right

(***************************************************************************)
(* normalizeHttpPath                                                       *)
(***************************************************************************)

\* Concatenation of a sequence of strings.
RECURSIVE Concat(_)
Concat(ss) == IF ss = <<>> THEN <<>> ELSE Head(ss) \o Concat(Tail(ss))

\* Array.prototype.join('/').
RECURSIVE JoinWithSlash(_)
JoinWithSlash(parts) ==
  IF Len(parts) = 0 THEN <<>>
  ELSE IF Len(parts) = 1 THEN parts[1]
  ELSE parts[1] \o Slash \o JoinWithSlash(Tail(parts))

\* inflection.underscore on a string without '::': an underbar before every
\* upper-case letter, a leading underbar removed, then lower-cased.
Underscore(str) ==
  LET marked == Concat([i \in 1..Len(str) |->
                  IF IsUpper(str[i]) THEN << "_", str[i] >> ELSE << str[i] >>])
      trimmed == IF marked # <<>> /\ marked[1] = "_" THEN Tail(marked) ELSE marked
  IN  ToLowerCase(trimmed)

\* inflection.dasherize: spaces and underbars become dashes.
Dasherize(str) ==
  [i \in 1..Len(str) |-> IF str[i] = " " \/ str[i] = "_" THEN "-" ELSE str[i]]

\* Line 124: inflection.transform(match, ['underscore', 'dasherize']).
Transform(match) == Dasherize(Underscore(match))

\* Mutant: only the underscore step is applied.
normalizeHttpPathUnderscoreOnly(path) ==
  JoinWithSlash([i \in 1..Len(Split(path)) |->
    LET match == Split(path)[i] IN
    IF match = <<>> \/ Contains(match, ":") THEN match ELSE Underscore(match)])

\* Lines 120-126: every maximal run of non-slash characters is replaced by
\* its transform, unless it contains ':'.
normalizeHttpPath(path) ==
  JoinWithSlash([i \in 1..Len(Split(path)) |->
    LET match == Split(path)[i] IN
    IF match = <<>> THEN match
    ELSE IF Contains(match, ":") THEN match
    ELSE Transform(match)])

\* Lines 128-130.
untransformedPath(path) == path

(***************************************************************************)
(* getRoutes                                                               *)
(***************************************************************************)

\* The http metadata of a class or method descriptor: absent (or any falsy
\* value), one route object, or an array of route objects.  A route object
\* whose verb or path is the empty string stands for one whose verb or path
\* is missing: the code tests both with ||, which treats them alike.
NoHttp == [kind |-> "absent"]
HttpObject(r) == [kind |-> "object", routes |-> << r >>]
HttpArray(rs) == [kind |-> "array", routes |-> rs]

Route(verb, path) == [verb |-> verb, path |-> path]

SharedCtorName == << "s", "h", "a", "r", "e", "d", "C", "t", "o", "r" >>
PrototypePath == << "/", "p", "r", "o", "t", "o", "t", "y", "p", "e" >>

\* Lines 84-90: the class's normalizeHttpPath option wins over the adapter's;
\* each is "undefined", "true" or "false".
NormalizeFlag(classOptions, adapterOptions) ==
  LET normalize == IF classOptions.normalizeHttpPath # "undefined"
                   THEN classOptions.normalizeHttpPath
                   ELSE adapterOptions.normalizeHttpPath
  IN  normalize = "true"

toPath(normalize, path) ==
  IF normalize THEN normalizeHttpPath(path) ELSE untransformedPath(path)

\* Lines 95-98: one declared route with its verb and path patched.
PatchRoute(r, name, normalize) ==
  [r EXCEPT !.verb = ToLowerCase(IF r.verb # <<>> THEN r.verb ELSE ALL),
            !.path = toPath(normalize, IF r.path # <<>> THEN r.path
                                       ELSE Slash \o name)]

\* Lines 77-115: the routes getRoutes returns for a descriptor.  classOptions
\* are the options of obj.sharedClass || obj.
getRoutes(obj, classOptions, adapterOptions) ==
  LET normalize == NormalizeFlag(classOptions, adapterOptions) IN
  IF obj.http.kind # "absent"
  THEN [i \in 1..Len(obj.http.routes) |->
          PatchRoute(obj.http.routes[i], obj.name, normalize)]
  ELSE IF obj.name = SharedCtorName THEN << Route(ALL, PrototypePath) >>
  ELSE << Route(ALL, IF obj.name # <<>> THEN toPath(normalize, Slash \o obj.name)
                     ELSE <<>>) >>

\* Lines 95-98: the route objects of obj.http are patched in place, so the
\* descriptor itself changes.
HttpAfterGetRoutes(obj, classOptions, adapterOptions) ==
  IF obj.http.kind # "absent"
  THEN [obj.http EXCEPT !.routes = getRoutes(obj, classOptions, adapterOptions)]
  ELSE obj.http

(***************************************************************************)
(* RestClass, RestMethod and the route table of createHandler              *)
(***************************************************************************)

\* A class without a shared constructor (sharedClass.sharedCtor is undefined).
NoCtor == [present |-> FALSE]

\* restClass.ctor while it is undefined.
NoRestCtor == [present |-> FALSE]

\* sharedMethod.stringName: 'Class.method' for a static method and
\* 'Class.prototype.method' for an instance method, kept in its three parts.
StringName(className, sharedMethod) ==
  [class |-> className, prototype |-> ~sharedMethod.isStatic,
   name |-> sharedMethod.name]

\* Mutant: the constructor's routes are never used as a prefix.
RestMethodUnprefixed(ctor, className, classOptions, adapterOptions, sharedMethod) ==
  [present |-> TRUE,
   fullName |-> StringName(className, sharedMethod),
   name |-> sharedMethod.name,
   isStatic |-> sharedMethod.isStatic,
   accepts |-> sharedMethod.accepts,
   routes |-> getRoutes(sharedMethod, classOptions, adapterOptions)]

\* Lines 635-663.  ctor is restClass.ctor at the time of the call.
RestMethod(ctor, className, classOptions, adapterOptions, sharedMethod) ==
  LET methodRoutes == getRoutes(sharedMethod, classOptions, adapterOptions) IN
  [present |-> TRUE,
   fullName |-> StringName(className, sharedMethod),
   name |-> sharedMethod.name,
   isStatic |-> sharedMethod.isStatic,
   accepts |-> sharedMethod.accepts,
   routes |->
     IF sharedMethod.isStatic \/ ~ctor.present THEN methodRoutes
     ELSE Concat([k \in 1..Len(methodRoutes) |->
            [l \in 1..Len(ctor.routes) |->
               [methodRoutes[k] EXCEPT
                  !.path = joinPaths(ctor.routes[l].path, methodRoutes[k].path)]]])]

\* Lines 614-629.
RestClass(sharedClass, adapterOptions) ==
  LET ctor == IF sharedClass.sharedCtor.present
              THEN RestMethod(NoRestCtor, sharedClass.name, sharedClass.options,
                              adapterOptions, sharedClass.sharedCtor)
              ELSE NoRestCtor
      sms == SelectSeq(sharedClass.methods, LAMBDA sm : ~sm.isSharedCtor)
  IN  [name |-> sharedClass.name,
       routes |-> getRoutes(sharedClass, sharedClass.options, adapterOptions),
       ctor |-> ctor,
       methods |-> [j \in 1..Len(sms) |->
                      RestMethod(ctor, sharedClass.name, sharedClass.options,
                                 adapterOptions, sms[j])]]

\* The descriptor of a class after a RestClass was built from it: getRoutes
\* has patched the declared routes of the class, of its shared constructor and
\* of its methods (lines 619, 622, 627 through line 650).
SharedClassAfterRestClass(sharedClass, adapterOptions) ==
  [sharedClass EXCEPT
     !.http = HttpAfterGetRoutes(sharedClass, sharedClass.options, adapterOptions),
     !.sharedCtor =
        IF sharedClass.sharedCtor.present
        THEN [sharedClass.sharedCtor EXCEPT
                !.http = HttpAfterGetRoutes(sharedClass.sharedCtor,
                                            sharedClass.options, adapterOptions)]
        ELSE sharedClass.sharedCtor,
     !.methods = [j \in 1..Len(sharedClass.methods) |->
        IF sharedClass.methods[j].isSharedCtor THEN sharedClass.methods[j]
        ELSE [sharedClass.methods[j] EXCEPT
                !.http = HttpAfterGetRoutes(sharedClass.methods[j],
                                            sharedClass.options, adapterOptions)]]]

\* Lines 608-612.
getClasses(classes, adapterOptions) ==
  [i \in 1..Len(classes) |-> RestClass(classes[i], adapterOptions)]

\* Lines 354-364: one entry per route of every method of the class.
MethodEntries(restClass) ==
  Concat([j \in 1..Len(restClass.methods) |->
    [k \in 1..Len(restClass.methods[j].routes) |->
       [route |-> restClass.methods[j].routes[k],
        method |-> restClass.methods[j].fullName]]])

Last(seq) == seq[Len(seq)]
Front(seq) == SubSeq(seq, 1, Len(seq) - 1)

\* e put into an already sorted list, after every entry that does not have
\* to come after it.
RECURSIVE InsertEntry(_, _)
InsertEntry(sorted, e) ==
  IF sorted = <<>> THEN << e >>
  ELSE IF sortRoutes(Last(sorted), e) > 0
       THEN Append(InsertEntry(Front(sorted), e), Last(sorted))
       ELSE Append(sorted, e)

RECURSIVE SortFrom(_, _)
SortFrom(sorted, rest) ==
  IF rest = <<>> THEN sorted
  ELSE SortFrom(InsertEntry(sorted, Head(rest)), Tail(rest))

\* Mutant: the entries are registered in declaration order.
SortEntriesDeclarationOrder(entries) == entries

\* Line 367: methods.sort(sortRoutes), a stable sort.
SortEntries(entries) == SortFrom(<<>>, entries)

\* Lines 465-479: the verb and path a handler is registered under.
RegisteredLayer(m) ==
  [verb |-> IF m.route.verb = DEL THEN DELETE ELSE m.route.verb,
   path |-> m.route.path,
   method |-> m.method]

\* Lines 348-386: the router of one class, its handlers in registration
\* order, and the paths it is mounted on.
ClassRouter(restClass) ==
  LET methods == SortEntries(MethodEntries(restClass)) IN
  [name |-> restClass.name,
   layers |-> [i \in 1..Len(methods) |-> RegisteredLayer(methods[i])],
   mounts |-> [i \in 1..Len(restClass.routes) |-> restClass.routes[i].path]]

\* router.<verb>(path, handler) matches a request of that verb, router.all
\* one of any verb.
VerbMatches(layer, req) == layer.verb = ALL \/ layer.verb = req.verb

\* A ':name' part matches any non-empty part, any other part only itself.
PartMatches(part, reqPart) ==
  IF IsWildcard(part) THEN reqPart # <<>> ELSE part = reqPart

PathMatches(path, reqPath) ==
  LET p == Split(path)
      q == Split(reqPath)
  IN  /\ Len(p) = Len(q)
      /\ \A i \in 1..Len(p) : PartMatches(p[i], q[i])

Matches(layer, req) == VerbMatches(layer, req) /\ PathMatches(layer.path, req.path)

\* The first registered layer that matches the request, or 0.
Dispatch(layers, req) ==
  IF \E i \in 1..Len(layers) : Matches(layers[i], req)
  THEN CHOOSE i \in 1..Len(layers) :
         /\ Matches(layers[i], req)
         /\ \A j \in 1..(i - 1) : ~Matches(layers[j], req)
  ELSE 0

(***************************************************************************)
(* The handler chain createHandler builds, and a request going through it  *)
(***************************************************************************)

\* Mutant: only a value that counts as true is rejected.
CorsRejectedWhenTruthy(cors) == cors \in {"true", "object"}

\* Lines 308-309: createHandler throws for every value of
\* remotes.options.cors but undefined and false.  The values are
\* "undefined", "null", "false", "true" and "object".
CorsRejected(cors) == cors # "undefined" /\ cors # "false"

\* Lines 403-405.
shouldHandleUnknownPaths(adapterOptions) == adapterOptions.handleUnknownPaths # "false"

\* Lines 407-409.
shouldHandleErrors(adapterOptions) == adapterOptions.handleErrors # "false"

\* A handler registered with root.use(handler).
Middleware(kind) == [kind |-> kind, class |-> 0, mount |-> <<>>, chain |-> <<>>]

\* Line 376: the handler of unknown methods of a class.
RemoteMethodNotFound ==
  [kind |-> "remoteMethodNotFound",
   layer |-> [verb |-> ALL, path |-> <<>>, method |-> <<>>]]

\* Mutant: the handler of unknown methods is registered before the method
\* handlers.
ClassChainNotFoundFirst(classRouter, handleUnknownPaths) ==
  (IF handleUnknownPaths THEN << RemoteMethodNotFound >> ELSE <<>>)
    \o [i \in 1..Len(classRouter.layers) |->
          [kind |-> "method", layer |-> classRouter.layers[i]]]

\* Lines 369-377: the handlers of a class router in registration order.
ClassChain(classRouter, handleUnknownPaths) ==
  [i \in 1..Len(classRouter.layers) |->
     [kind |-> "method", layer |-> classRouter.layers[i]]]
    \o (IF handleUnknownPaths THEN << RemoteMethodNotFound >> ELSE <<>>)

\* Lines 322-398: the handlers of the root router in registration order.
RootChain(routers, handleUnknownPaths, handleErrors) ==
  << Middleware("tolerateEmptyJson"), Middleware("urlencoded"), Middleware("json") >>
    \o Concat([i \in 1..Len(routers) |->
         [k \in 1..Len(routers[i].mounts) |->
            [kind |-> "router", class |-> i, mount |-> routers[i].mounts[k],
             chain |-> ClassChain(routers[i], handleUnknownPaths)]]])
    \o (IF handleUnknownPaths THEN << Middleware("urlNotFound") >> ELSE <<>>)
    \o (IF handleErrors THEN << Middleware("errorHandler") >> ELSE <<>>)

NoError == [statusCode |-> 0, from |-> "none"]

\* Lines 416-418 and 425-427.
NotFoundError(from) == [statusCode |-> 404, from |-> from]

\* What the json parser passes to next for a body it cannot parse.
ParseError == [statusCode |-> 400, from |-> "json"]

\* A mount path without its trailing slash.
MountParts(mount) ==
  Split(IF mount # <<>> /\ mount[Len(mount)] = "/"
        THEN SubSeq(mount, 1, Len(mount) - 1) ELSE mount)

\* root.use(path, router) hands the router every request whose path starts
\* with the parts of path.
MountMatches(mount, reqPath) ==
  LET p == MountParts(mount)
      q == Split(reqPath)
  IN  /\ Len(p) <= Len(q)
      /\ \A i \in 1..Len(p) : PartMatches(p[i], q[i])

\* The path the mounted router sees: the request's path below the mount.
BelowMount(mount, reqPath) ==
  LET p == MountParts(mount)
      q == Split(reqPath)
  IN  Slash \o JoinWithSlash(SubSeq(q, Len(p) + 1, Len(q)))

\* The first handler of a class router that takes the request: a method
\* handler registered for its verb and path, or the handler of unknown
\* methods; 0 when the request leaves the router again.
Takes(h, req) == h.kind = "remoteMethodNotFound" \/ Matches(h.layer, req)

DispatchChain(chain, req) ==
  IF \E k \in 1..Len(chain) : Takes(chain[k], req)
  THEN CHOOSE k \in 1..Len(chain) :
         /\ Takes(chain[k], req)
         /\ \A j \in 1..(k - 1) : ~Takes(chain[j], req)
  ELSE 0

\* A request before the first handler of the root router.
Arrived == [err |-> NoError, entered |-> <<>>, hit |-> <<>>, end |-> "running"]

\* The request goes through the handlers of the root router from the i-th
\* on, as express runs them: a handler without an err parameter is skipped
\* while an error is passed along, the error handler is skipped while none
\* is.  entered lists the classes whose routers the request went into, hit
\* is the method that handled it, end tells where it ended: at a method
\* handler, at the error handler, or behind the adapter with next(err) or
\* next().
RECURSIVE ServeFrom(_, _, _, _)
ServeFrom(chain, i, req, st) ==
  IF i > Len(chain)
  THEN [st EXCEPT !.end = IF st.err = NoError THEN "next" ELSE "nextError"]
  ELSE IF chain[i].kind = "errorHandler"
  THEN IF st.err # NoError THEN [st EXCEPT !.end = "errorHandler"]
       ELSE ServeFrom(chain, i + 1, req, st)
  ELSE IF st.err # NoError THEN ServeFrom(chain, i + 1, req, st)
  ELSE IF chain[i].kind = "json"
  THEN ServeFrom(chain, i + 1, req,
         IF req.body = "malformed" THEN [st EXCEPT !.err = ParseError] ELSE st)
  ELSE IF chain[i].kind = "urlNotFound"
  THEN ServeFrom(chain, i + 1, req, [st EXCEPT !.err = NotFoundError("url")])
  ELSE IF chain[i].kind = "router" /\ MountMatches(chain[i].mount, req.path)
  THEN LET sub == [verb |-> req.verb, path |-> BelowMount(chain[i].mount, req.path)]
           k == DispatchChain(chain[i].chain, sub)
           in == [st EXCEPT !.entered = Append(@, chain[i].class)]
       IN  IF k = 0 THEN ServeFrom(chain, i + 1, req, in)
           ELSE IF chain[i].chain[k].kind = "method"
           THEN [in EXCEPT !.hit = chain[i].chain[k].layer.method, !.end = "method"]
           ELSE ServeFrom(chain, i + 1, req,
                          [in EXCEPT !.err = NotFoundError("class")])
  ELSE ServeFrom(chain, i + 1, req, st)

Serve(chain, req) == ServeFrom(chain, 1, req, Arrived)

(***************************************************************************)
(* The method index: _createRestMethodByNameCache and getRestMethodByName  *)
(***************************************************************************)

\* What a lookup returns for a name it does not resolve.
Undefined == [present |-> FALSE]

\* this._cachedRestMethodsByName before the first lookup.
NoCache == [built |-> FALSE]

\* sharedClass.isMethodEnabled(sharedMethod), asked at the time of the call:
\* disabled holds the full names of the methods disabled at that time.
isMethodEnabled(disabled, fullName) == fullName \notin disabled

\* sharedClass.methods() as RestClass sees it (line 624).  Whether the
\* registry lists its disabled methods is left open (listsDisabled).
ListedMethod(sharedClass, sm, disabled, listsDisabled) ==
  listsDisabled \/ isMethodEnabled(disabled, StringName(sharedClass.name, sm))

ListedClasses(classes, disabled, listsDisabled) ==
  [i \in 1..Len(classes) |->
     [classes[i] EXCEPT !.methods =
        SelectSeq(@, LAMBDA sm : ListedMethod(classes[i], sm, disabled, listsDisabled))]]

\* The registry after getClasses ran over the listed methods: the declared
\* routes of the classes, constructors and listed methods are patched.
ClassesAfterGetClasses(classes, adapterOptions, disabled, listsDisabled) ==
  [i \in 1..Len(classes) |->
     LET patched == SharedClassAfterRestClass(classes[i], adapterOptions) IN
     [patched EXCEPT !.methods =
        [j \in 1..Len(classes[i].methods) |->
           IF ListedMethod(classes[i], classes[i].methods[j], disabled, listsDisabled)
           THEN patched.methods[j]
           ELSE classes[i].methods[j]]]]

\* Lines 210-221: the map from full name to RestMethod; of two methods with
\* one full name the later one stays.
createRestMethodByNameCache(classes) ==
  LET ms == Concat([i \in 1..Len(classes) |-> classes[i].methods]) IN
  [n \in {ms[k].fullName : k \in 1..Len(ms)} |->
     ms[CHOOSE k \in 1..Len(ms) :
          /\ ms[k].fullName = n
          /\ \A l \in (k + 1)..Len(ms) : ms[l].fullName # n]]

\* this._cachedRestMethodsByName[name], undefined without a cache.
CacheLookup(cache, name) ==
  IF cache.built /\ name \in DOMAIN cache.map THEN cache.map[name] ELSE Undefined

\* Mutant: the live check of line 237 is missing.
getRestMethodByNameUnchecked(cache, classes, disabled, name) ==
  LET hit == CacheLookup(cache, name)
      rebuilt == [built |-> TRUE, map |-> createRestMethodByNameCache(classes)]
  IN  [cache |-> IF hit.present THEN cache ELSE rebuilt,
       rebuilds |-> IF hit.present THEN 0 ELSE 1,
       ret |-> IF hit.present THEN hit ELSE CacheLookup(rebuilt, name)]

\* Mutant: a miss in an existing cache is final, the cache is built once.
getRestMethodByNameBuiltOnce(cache, classes, disabled, name) ==
  LET hit == CacheLookup(cache, name)
      rebuilt == [built |-> TRUE, map |-> createRestMethodByNameCache(classes)]
      found == IF cache.built THEN hit ELSE CacheLookup(rebuilt, name)
  IN  [cache |-> IF cache.built THEN cache ELSE rebuilt,
       rebuilds |-> IF cache.built THEN 0 ELSE 1,
       ret |-> IF found.present /\ ~isMethodEnabled(disabled, found.fullName)
               THEN Undefined ELSE found]

\* Lines 223-243.  classes is what this.getClasses() returns when line 233
\* calls it.  The result holds the returned method, the cache left behind and
\* the number of times the cache was built.
getRestMethodByName(cache, classes, disabled, name) ==
  LET hit == CacheLookup(cache, name)
      rebuilt == [built |-> TRUE, map |-> createRestMethodByNameCache(classes)]
      found == IF hit.present THEN hit ELSE CacheLookup(rebuilt, name)
  IN  [cache |-> IF hit.present THEN cache ELSE rebuilt,
       rebuilds |-> IF hit.present THEN 0 ELSE 1,
       ret |-> IF found.present /\ ~isMethodEnabled(disabled, found.fullName)
               THEN Undefined ELSE found]

(***************************************************************************)
(* The HTTP pipeline: the method handlers and _invokeMethod                *)
(***************************************************************************)

Ok == "ok"
Unset == "unset"

\* Mutant: the after hook is pushed before the invocation.
StepsAfterBeforeInvoke(method) ==
  (IF method.rest.before THEN << "before" >> ELSE <<>>)
    \o (IF method.rest.after THEN << "after" >> ELSE <<>>)
    \o << "invoke" >>

\* Lines 516-534: the steps handed to async.series.
Steps(method) ==
  (IF method.rest.before THEN << "before" >> ELSE <<>>)
    \o << "invoke" >>
    \o (IF method.rest.after THEN << "after" >> ELSE <<>>)

IndexOf(seq, x) == CHOOSE i \in 1..Len(seq) : seq[i] = x

\* Mutant: an error of a step does not end the series.
AfterStepIgnoringError(steps, stage, err) ==
  IF IndexOf(steps, stage) < Len(steps)
  THEN [kind |-> "step", stage |-> steps[IndexOf(steps, stage) + 1]]
  ELSE [kind |-> "final", err |-> Ok]

\* Line 536, async.series: when a step signals an error the final callback
\* gets it at once; when it signals success the next step starts, and after
\* the last step the final callback is called without an error.
AfterStep(steps, stage, err) ==
  IF err # Ok THEN [kind |-> "final", err |-> err]
  ELSE IF IndexOf(steps, stage) < Len(steps)
       THEN [kind |-> "step", stage |-> steps[IndexOf(steps, stage) + 1]]
       ELSE [kind |-> "final", err |-> Ok]

\* What remotes.invokeMethodInContext(ctx, cb) can signal: with a deferred
\* constructor error on the context the invocation does not succeed, it
\* signals that error or the error of an earlier check of its own.
InvokeOutcomes(ctx) ==
  IF ctx.sharedCtorError # Unset THEN {ctx.sharedCtorError, "invokeError"}
  ELSE {Ok, "invokeError"}

\* What a step can signal to its callback.
StepOutcomes(stage, ctx) ==
  CASE stage = "before" -> {Ok, "beforeError"}
    [] stage = "invoke" -> InvokeOutcomes(ctx)
    [] stage = "after" -> {Ok, "afterError"}

\* A request no handler has seen yet.
\* ctor records what the shared constructor signalled, "none" before that.
IdleRequest ==
  [pc |-> "idle", started |-> <<>>, signals |-> <<>>, nextArgs |-> <<>>,
   ctor |-> "none",
   ctx |-> [sharedCtorError |-> Unset, instance |-> Unset]]

\* Lines 514-536 for request q: the first step of the series starts.
InvokeMethod(q, method) ==
  [q EXCEPT !.pc = Steps(method)[1],
            !.started = Append(@, Steps(method)[1])]

\* Mutant: the final callback passes the error to next and goes on to
\* ctx.done all the same.
SeriesDoneFallingThrough(q, err) ==
  IF err # Ok
  THEN [q EXCEPT !.pc = "done", !.nextArgs = Append(@, err),
                 !.started = Append(@, "done")]
  ELSE [q EXCEPT !.pc = "done", !.started = Append(@, "done")]

\* Lines 538-545 for request q: the final callback of the series.
SeriesDone(q, err) ==
  IF err # Ok THEN [q EXCEPT !.pc = "next", !.nextArgs = Append(@, err)]
  ELSE [q EXCEPT !.pc = "done", !.started = Append(@, "done")]

\* Mutant: the constructor's error is passed to next at once and the
\* pipeline does not start.
SharedCtorDoneRaising(q, err, method) ==
  IF err # Ok
  THEN [q EXCEPT !.pc = "next", !.nextArgs = Append(@, err)]
  ELSE InvokeMethod([q EXCEPT !.ctx.instance = "inst"], method)

\* Mutant: the constructor's error is dropped and the pipeline starts as if
\* there were none.
SharedCtorDoneSwallowing(q, err, method) ==
  InvokeMethod(IF err # Ok THEN q ELSE [q EXCEPT !.ctx.instance = "inst"], method)

\* Lines 499-510 for request q, the callback of the shared constructor: an
\* error is kept on the context, an instance otherwise, and in both cases
\* _invokeMethod is called.
SharedCtorDone(q, err, method) ==
  InvokeMethod(
    IF err # Ok THEN [q EXCEPT !.ctx.sharedCtorError = err]
    ELSE [q EXCEPT !.ctx.instance = "inst"],
    method)

(***************************************************************************)
(* State                                                                   *)
(***************************************************************************)

VARIABLES
  rankA,     \* first entry handed to sortRoutes
  rankB,     \* second entry handed to sortRoutes
  rankOut,   \* what sortRoutes returned for them, or NotCompared
  joinLeft,  \* first argument of joinPaths
  joinRight, \* second argument of joinPaths
  joinOut,   \* what joinPaths returned, or NotJoined
  normPath,  \* a declared path
  normOut,   \* what normalizeHttpPath or getRoutes made of it, or NotNormalized
  remotes,   \* the registry: the shared classes with their methods
  options,   \* the adapter's options
  restClasses, \* what getClasses last returned, or <<>>
  router,    \* the class routers createHandler built, or <<>>
  served,    \* the request last dispatched and the layer it reached
  method,    \* the shared method the method handler was created for
  reqs,      \* the requests the handler has been called for, each with its ctx
  disabled,  \* the full names of the methods disabled in the registry
  listsDisabled, \* whether sharedClass.methods() lists disabled methods
  cache,     \* this._cachedRestMethodsByName, or NoCache
  looked,    \* the last call of getRestMethodByName and what it returned
  calls,     \* the calls of invoke, each with its stages and its callback
  authIn,    \* the inputs of a credential lookup
  authOut,   \* what getArgByName and _getInvocationAuth returned for them
  root,      \* the handler chain of the router createHandler returned
  thrown,    \* what createHandler threw, or NotThrown
  rootServed, \* the request last sent through the chain and where it went
  declared,  \* the classes of the registry as they were declared
  listing    \* what allRoutes last returned, or NotListed

rankVars == << rankA, rankB, rankOut >>
joinVars == << joinLeft, joinRight, joinOut >>
normVars == << normPath, normOut >>

regVars == << remotes, options, restClasses, router, served >>

pipeVars == << method, reqs >>

idxVars == << disabled, listsDisabled, cache, looked >>

callVars == << calls >>

authVars == << authIn, authOut >>

chainVars == << root, thrown, rootServed >>

declVars == << declared >>

listVars == << listing >>

moreVars == << idxVars, callVars, authVars, chainVars, declVars, listVars >>

vars == << rankVars, joinVars, normVars, regVars, pipeVars, moreVars >>

\* The RemoteObjects the adapter was created for: its classes, its
\* credentials (remotes.auth) and its options.
RemoteObjects(classes, auth, cors) ==
  [classes |-> classes, auth |-> auth, options |-> [cors |-> cors]]

\* JavaScript's undefined as the value of a property or an argument.
JsUndefined == [kind |-> "undefined"]

\* RemoteObjects without credentials and without the cors option.
Remotes(classes) == RemoteObjects(classes, JsUndefined, "undefined")

\* The adapter's options; an option that is not given is "undefined".
Options(normalize, unknownPaths, errors, passAccessToken) ==
  [normalizeHttpPath |-> normalize, handleUnknownPaths |-> unknownPaths,
   handleErrors |-> errors, passAccessToken |-> passAccessToken]

DefaultOptions(normalize) == Options(normalize, "undefined", "undefined", "undefined")

NotCompared == [done |-> FALSE]
NotJoined == [done |-> FALSE]
NotNormalized == [kind |-> "none"]
NotServed == [done |-> FALSE]
NotListed == [done |-> FALSE]
NoMethod == [isStatic |-> TRUE, rest |-> [before |-> FALSE, after |-> FALSE]]

\* The parts of the state a specification does not use stay as they are here.
RankIdle == rankA = <<>> /\ rankB = <<>> /\ rankOut = NotCompared
JoinIdle == joinLeft = <<>> /\ joinRight = <<>> /\ joinOut = NotJoined
NormIdle == normPath = <<>> /\ normOut = NotNormalized
RegIdle ==
  /\ remotes = Remotes(<<>>)
  /\ options = DefaultOptions("undefined")
  /\ restClasses = <<>>
  /\ router = <<>>
  /\ served = NotServed
PipeIdle == method = NoMethod /\ reqs = <<>>

NotLooked == [done |-> FALSE]
NoAuthIn == [given |-> FALSE]
NotResolved == [done |-> FALSE]
NotThrown == "none"

IdxIdle ==
  /\ disabled = {}
  /\ listsDisabled = FALSE
  /\ cache = NoCache
  /\ looked = NotLooked
CallIdle == calls = <<>>
AuthIdle == authIn = NoAuthIn /\ authOut = NotResolved
ChainIdle == root = <<>> /\ thrown = NotThrown /\ rootServed = NotServed
DeclIdle == declared = <<>>
ListIdle == listing = NotListed
MoreIdle == IdxIdle /\ CallIdle /\ AuthIdle /\ ChainIdle /\ DeclIdle /\ ListIdle

(***************************************************************************)
(* Ranking: sortRoutes applied to pairs of entries                         *)
(***************************************************************************)

MaxPathLen == 2

PathAlphabet == {"/", ":", "a"}

RankPaths == StringsUpTo(PathAlphabet, MaxPathLen)

\* Verbs as a route may declare them when it reaches sortRoutes.
RankVerbs == {ALL, GET, << "P", "U", "T" >>, DEL, DELETE}

\* An entry as createHandler builds it (line 362); the method plays no part
\* in the comparison.
Entry(verb, path) == [route |-> [verb |-> verb, path |-> path], method |-> "m"]

RankEntries == {Entry(v, p) : v \in RankVerbs, p \in RankPaths}

InitRank ==
  /\ rankA \in RankEntries
  /\ rankB \in RankEntries
  /\ rankOut = NotCompared
  /\ JoinIdle /\ NormIdle /\ RegIdle /\ PipeIdle /\ MoreIdle

\* The comparator applied to the pair, in both directions and to itself.
CompareRoutes ==
  /\ rankOut = NotCompared
  /\ rankOut' = [done |-> TRUE,
                 ab |-> sortRoutes(rankA, rankB),
                 ba |-> sortRoutes(rankB, rankA),
                 aa |-> sortRoutes(rankA, rankA)]
  /\ UNCHANGED << rankA, rankB, joinVars, normVars, regVars, pipeVars, moreVars >>

NextRank == CompareRoutes

SpecRank == InitRank /\ [][NextRank]_vars

Sign(n) == IF n < 0 THEN -1 ELSE IF n > 0 THEN 1 ELSE 0

Parts(e) == Split(e.route.path)

IsLiteral(seg) == seg # <<>> /\ seg[1] # ":"

\* Position i is the first at which the two paths differ in kind as C2 says:
\* all earlier parts equal, literal in a, placeholder in b.
LiteralVsWildcardAt(a, b, i) ==
  /\ i <= Len(Parts(a)) /\ i <= Len(Parts(b))
  /\ \A j \in 1..(i - 1) : Parts(a)[j] = Parts(b)[j]
  /\ IsLiteral(Parts(a)[i])
  /\ IsWildcard(Parts(b)[i])

SameVerb(a, b) == NormVerb(a.route.verb) = NormVerb(b.route.verb)

\* C2: with the same normalized verb and equal parts before position i, a
\* literal part at i ranks before a placeholder part at i: negative when the
\* literal route is the first argument, positive when it is the second.
C2_LiteralBeforePlaceholder ==
  rankOut.done =>
    /\ (SameVerb(rankA, rankB)
        /\ \E i \in 1..Len(Parts(rankA)) : LiteralVsWildcardAt(rankA, rankB, i))
         => (rankOut.ab < 0 /\ rankOut.ba > 0)
    /\ (SameVerb(rankA, rankB)
        /\ \E i \in 1..Len(Parts(rankB)) : LiteralVsWildcardAt(rankB, rankA, i))
         => (rankOut.ab > 0 /\ rankOut.ba < 0)

\* Witness: a compared pair with the literal and the placeholder at the second
\* position, after an equal first part ('/a' against '/:').
C2_Witness ==
  /\ rankOut.done
  /\ SameVerb(rankA, rankB)
  /\ LiteralVsWildcardAt(rankA, rankB, 2)
  /\ rankOut.ab < 0

\* C3: when the normalized verbs differ, the route with the greater verb
\* ranks first whatever the paths; del and delete are not told apart by the
\* verb rule (the result is then that of the path rules alone).
C3_VerbDescending ==
  rankOut.done =>
    LET v1 == NormVerb(rankA.route.verb)
        v2 == NormVerb(rankB.route.verb)
    IN  /\ StrGreater(v1, v2) => (rankOut.ab < 0 /\ rankOut.ba > 0)
        /\ StrLess(v1, v2) => (rankOut.ab > 0 /\ rankOut.ba < 0)
        /\ (v1 # ALL /\ v2 = ALL) => rankOut.ab < 0
        /\ ({rankA.route.verb, rankB.route.verb} = {DEL, DELETE})
             => rankOut.ab = ComparePaths(rankA.route.path, rankB.route.path)

\* Witness: PUT /: against GET /a is decided by the verb, against the path
\* rules, which would put the literal first.
C3_Witness ==
  /\ rankOut.done
  /\ NormVerb(rankA.route.verb) = PUT /\ rankA.route.verb # PUT
  /\ rankB.route.verb = GET
  /\ ComparePaths(rankA.route.path, rankB.route.path) > 0
  /\ rankOut.ab < 0

\* C4: sortRoutes is reflexive (0 on equal arguments), antisymmetric in sign
\* and transitive over every third entry.
C4_ConsistentOrder ==
  rankOut.done =>
    /\ rankOut.aa = 0
    /\ Sign(rankOut.ab) = -Sign(rankOut.ba)
    /\ rankOut.ab <= 0 =>
         \A c \in RankEntries :
           sortRoutes(rankB, c) <= 0 => sortRoutes(rankA, c) <= 0

\* Witness: a strictly ordered pair whose paths differ in length.
C4_Witness ==
  /\ rankOut.done
  /\ rankOut.ab < 0
  /\ Len(Parts(rankA)) # Len(Parts(rankB))
  /\ \E c \in RankEntries : sortRoutes(rankB, c) < 0 /\ sortRoutes(rankA, c) < 0

(***************************************************************************)
(* Joining: joinPaths applied to pairs of strings                          *)
(***************************************************************************)

MaxJoinLen == 3

JoinAlphabet == {"/", "a", "b"}

JoinStrings == StringsUpTo(JoinAlphabet, MaxJoinLen)

InitJoin ==
  /\ joinLeft \in JoinStrings
  /\ joinRight \in JoinStrings
  /\ joinOut = NotJoined
  /\ RankIdle /\ NormIdle /\ RegIdle /\ PipeIdle /\ MoreIdle

JoinPaths ==
  /\ joinOut = NotJoined
  /\ joinOut' = [done |-> TRUE, path |-> joinPaths(joinLeft, joinRight)]
  /\ UNCHANGED << joinLeft, joinRight, rankVars, normVars, regVars, pipeVars, moreVars >>

NextJoin == JoinPaths

SpecJoin == InitJoin /\ [][NextJoin]_vars

StripTrailingSlash(s) ==
  IF s # <<>> /\ s[Len(s)] = "/" THEN SubSeq(s, 1, Len(s) - 1) ELSE s

StripLeadingSlash(s) == IF s # <<>> /\ s[1] = "/" THEN Tail(s) ELSE s

\* C7: for arguments without '//': an empty prefix gives the suffix; an empty
\* or '/' suffix gives the prefix; otherwise the result is the prefix and the
\* suffix with exactly one '/' between them, and it holds no '//'.
C7_JoinPaths ==
  (joinOut.done /\ ~HasDoubleSlash(joinLeft) /\ ~HasDoubleSlash(joinRight)) =>
    /\ joinLeft = <<>> => joinOut.path = joinRight
    /\ (joinLeft # <<>> /\ joinRight \in {<<>>, Slash}) => joinOut.path = joinLeft
    /\ (joinLeft # <<>> /\ joinRight \notin {<<>>, Slash}) =>
         /\ joinOut.path =
              StripTrailingSlash(joinLeft) \o Slash \o StripLeadingSlash(joinRight)
         /\ ~HasDoubleSlash(joinOut.path)

\* Witness: joinPaths('/a/', '/b') has returned '/a/b'.
C7_Witness ==
  /\ joinOut.done
  /\ joinLeft = << "/", "a", "/" >>
  /\ joinRight = << "/", "b" >>
  /\ joinOut.path = << "/", "a", "/", "b" >>

(***************************************************************************)
(* Normalizing: normalizeHttpPath and getRoutes applied to a declared path *)
(***************************************************************************)

MaxNormLen == 3

NormAlphabet == {"/", ":", "A", "a", "_", " "}

NormPaths == StringsUpTo(NormAlphabet, MaxNormLen)

Flags == {"undefined", "true", "false"}

InitNorm ==
  /\ normPath \in NormPaths
  /\ normOut = NotNormalized
  /\ RankIdle /\ JoinIdle /\ RegIdle /\ PipeIdle /\ MoreIdle

\* normalizeHttpPath applied once, and again to its own result.
NormalizeHttpPath ==
  /\ normOut = NotNormalized
  /\ normOut' = [kind |-> "normalize",
                 once |-> normalizeHttpPath(normPath),
                 twice |-> normalizeHttpPath(normalizeHttpPath(normPath))]
  /\ UNCHANGED << normPath, rankVars, joinVars, regVars, pipeVars, moreVars >>

\* getRoutes applied to a method 'aA' that declares the path, under every
\* setting of the class's and the adapter's normalizeHttpPath option.
GetRoutesOfDeclared ==
  /\ normOut = NotNormalized
  /\ \E classFlag \in Flags, adapterFlag \in Flags :
       normOut' = [kind |-> "getRoutes",
                   normalize |-> NormalizeFlag([normalizeHttpPath |-> classFlag],
                                               [normalizeHttpPath |-> adapterFlag]),
                   classFlag |-> classFlag,
                   adapterFlag |-> adapterFlag,
                   routes |-> getRoutes(
                     [name |-> << "a", "A" >>,
                      http |-> HttpObject(Route(GET, normPath))],
                     [normalizeHttpPath |-> classFlag],
                     [normalizeHttpPath |-> adapterFlag])]
  /\ UNCHANGED << normPath, rankVars, joinVars, regVars, pipeVars, moreVars >>

NextNorm == NormalizeHttpPath \/ GetRoutesOfDeclared

SpecNorm == InitNorm /\ [][NextNorm]_vars

\* out keeps every '/' of in where it is and every part of in that holds ':'.
KeepsPlaceholders(in, out) ==
  /\ Len(Split(out)) = Len(Split(in))
  /\ \A i \in 1..Len(Split(in)) :
       Contains(Split(in)[i], ":") => Split(out)[i] = Split(in)[i]

\* C8: normalizing twice gives what normalizing once gives; the separators
\* and the parts holding ':' come back unchanged, whatever the normalization
\* setting; with normalization off getRoutes returns a declared (non-empty)
\* path unchanged.
C8_NormalizeIdempotent ==
  /\ normOut.kind = "normalize" =>
       /\ normOut.twice = normOut.once
       /\ KeepsPlaceholders(normPath, normOut.once)
  /\ (normOut.kind = "getRoutes" /\ normPath # <<>>) =>
       /\ KeepsPlaceholders(normPath, normOut.routes[1].path)
       /\ (normOut.classFlag = "false"
           \/ (normOut.classFlag = "undefined" /\ normOut.adapterFlag # "true"))
            => normOut.routes[1].path = normPath

\* Witness: a path with a part that normalization rewrites next to a
\* placeholder part that it leaves alone.
C8_Witness ==
  /\ normOut.kind = "normalize"
  /\ normPath = << "A", "/", ":" >>
  /\ normOut.once = << "a", "/", ":" >>
  /\ normOut.twice = normOut.once

(***************************************************************************)
(* The registry, getClasses, createHandler and dispatch                    *)
(***************************************************************************)

MaxMethods == 2

SharedMethod(name, isStatic, http) ==
  [present |-> TRUE, name |-> name, isStatic |-> isStatic, isSharedCtor |-> FALSE,
   http |-> http, accepts |-> <<>>]

\* A shared method with declared arguments.
SharedMethodAccepting(name, isStatic, http, accepts) ==
  [SharedMethod(name, isStatic, http) EXCEPT !.accepts = accepts]

SharedCtor(http) ==
  [present |-> TRUE, name |-> SharedCtorName, isStatic |-> TRUE,
   isSharedCtor |-> TRUE, http |-> http, accepts |-> <<>>]

SharedClass(name, http, flag, sharedCtor, methods) ==
  [name |-> name, http |-> http, options |-> [normalizeHttpPath |-> flag],
   sharedCtor |-> sharedCtor, methods |-> methods]

\* The name of the i-th method of a class.
MethodName(i) == << "m", << "A", "B", "C", "D" >>[i] >>

\* Lines 608-612 as a call of its own: the RestClasses are built and the
\* declared routes of the registry are patched on the way.
GetClasses ==
  /\ remotes.classes # <<>>
  /\ restClasses' = getClasses(remotes.classes, options)
  /\ remotes' = [remotes EXCEPT !.classes =
       [i \in 1..Len(remotes.classes) |->
          SharedClassAfterRestClass(remotes.classes[i], options)]]
  /\ UNCHANGED << options, router, served, rankVars, joinVars, normVars, pipeVars, moreVars >>

\* Lines 307-401: with a cors option createHandler throws before anything
\* else happens; otherwise the RestClasses are built (line 321), every class
\* gets its router with the sorted method handlers, and the root router gets
\* the parsers, the class routers on their mounts, the handler of unknown
\* URLs and the error handler.
CreateHandler ==
  /\ remotes.classes # <<>>
  /\ IF CorsRejected(remotes.options.cors)
     THEN /\ thrown' = "corsError"
          /\ UNCHANGED << remotes, restClasses, router, served, root, rootServed >>
     ELSE /\ thrown' = NotThrown
          /\ restClasses' = getClasses(remotes.classes, options)
          /\ remotes' = [remotes EXCEPT !.classes =
               [i \in 1..Len(remotes.classes) |->
                  SharedClassAfterRestClass(remotes.classes[i], options)]]
          /\ router' = [i \in 1..Len(remotes.classes) |->
                          ClassRouter(getClasses(remotes.classes, options)[i])]
          /\ root' = RootChain(router', shouldHandleUnknownPaths(options),
                               shouldHandleErrors(options))
          /\ served' = NotServed
          /\ rootServed' = NotServed
  /\ UNCHANGED << options, rankVars, joinVars, normVars, pipeVars,
                  idxVars, callVars, authVars, declVars, listVars >>

\* A request for the root router createHandler returned.
ServeRequest(req) ==
  /\ root # <<>>
  /\ rootServed' = [done |-> TRUE, req |-> req, out |-> Serve(root, req)]
  /\ UNCHANGED << regVars, root, thrown, rankVars, joinVars, normVars, pipeVars,
                  idxVars, callVars, authVars, declVars, listVars >>

\* A request for one class router: the verb and the path below the mount.
HandleRequest(i, req) ==
  /\ router # <<>>
  /\ i \in 1..Len(router)
  /\ served' = [done |-> TRUE, class |-> i, req |-> req,
                hit |-> Dispatch(router[i].layers, req)]
  /\ UNCHANGED << remotes, options, restClasses, router,
                  rankVars, joinVars, normVars, pipeVars, moreVars >>

(***************************************************************************)
(* Derivation: registries of every declared shape                          *)
(***************************************************************************)

DeriveClassHttp ==
  {NoHttp, HttpArray(<<>>), HttpObject(Route(<<>>, << "/", "W" >>))}

DeriveCtors ==
  {NoCtor,
   SharedCtor(NoHttp),
   SharedCtor(HttpArray(<<>>)),
   SharedCtor(HttpArray(<< Route(<<>>, << "/", ":", "/" >>),
                           Route(GET, << "/", "c" >>) >>))}

DeriveMethodHttp ==
  {NoHttp,
   HttpObject(Route(<<>>, <<>>)),
   HttpArray(<<>>),
   HttpArray(<< Route(<< "G", "E", "T" >>, << "/", "a" >>),
                Route(<<>>, << "/", ":" >>) >>)}

\* The class's and the adapter's normalizeHttpPath option.
DeriveFlags ==
  {<< "undefined", "undefined" >>, << "undefined", "true" >>,
   << "false", "true" >>, << "true", "false" >>}

DeriveMethods ==
  UNION {{[j \in 1..n |-> SharedMethod(MethodName(j), st[j], ht[j])] :
            st \in [1..n -> BOOLEAN], ht \in [1..n -> DeriveMethodHttp]} :
         n \in 1..MaxMethods}

InitDerive ==
  /\ \E h \in DeriveClassHttp, c \in DeriveCtors, f \in DeriveFlags,
        ms \in DeriveMethods :
       /\ remotes = Remotes(<< SharedClass(<< "w" >>, h, f[1], c, ms) >>)
       /\ options = DefaultOptions(f[2])
  /\ restClasses = <<>>
  /\ router = <<>>
  /\ served = NotServed
  /\ RankIdle /\ JoinIdle /\ NormIdle /\ PipeIdle /\ MoreIdle

NextDerive == GetClasses \/ CreateHandler

SpecDerive == InitDerive /\ [][NextDerive]_vars

\* C5: every class and every method gets at least one route: the routes of
\* every RestClass, of its constructor and of each of its RestMethods are
\* non-empty.
C5_RoutesNonEmpty ==
  \A i \in 1..Len(restClasses) :
    /\ Len(restClasses[i].routes) >= 1
    /\ restClasses[i].ctor.present => Len(restClasses[i].ctor.routes) >= 1
    /\ \A j \in 1..Len(restClasses[i].methods) :
         Len(restClasses[i].methods[j].routes) >= 1

IsPrefix(s, t) == Len(s) <= Len(t) /\ SubSeq(t, 1, Len(s)) = s

AsSet(seq) == {seq[i] : i \in 1..Len(seq)}

\* The routes getRoutes gives for the j-th method of the i-th class.
MethodRoutes(i, j) ==
  getRoutes(remotes.classes[i].methods[j], remotes.classes[i].options, options)

\* The routes of the RestMethod are the method's routes, each joined to each
\* of ctorRoutes, with the method route's verb.
IsCrossProduct(routes, ctorRoutes, methodRoutes) ==
  /\ AsSet(routes) =
       {[verb |-> r.verb, path |-> joinPaths(c.path, r.path)] :
          r \in AsSet(methodRoutes), c \in AsSet(ctorRoutes)}
  /\ Len(routes) = Len(methodRoutes) * Len(ctorRoutes)
  /\ \A k \in 1..Len(routes) :
       \E c \in AsSet(ctorRoutes) : IsPrefix(c.path, routes[k].path)

\* C6 as stated: also in a class without a shared constructor an instance
\* method has only routes that carry a constructor route as prefix.
C6_Original ==
  \A i \in 1..Len(restClasses) :
    \A j \in 1..Len(restClasses[i].methods) :
      ~restClasses[i].methods[j].isStatic =>
        IsCrossProduct(restClasses[i].methods[j].routes,
                       IF restClasses[i].ctor.present
                       THEN restClasses[i].ctor.routes ELSE <<>>,
                       MethodRoutes(i, j))

\* C6 as amended: in a class with a shared constructor the routes of an
\* instance method are the cross product of the method's routes and the
\* constructor's routes, joined; in a class without one they are the method's
\* own routes.
C6_CtorPrefix ==
  \A i \in 1..Len(restClasses) :
    \A j \in 1..Len(restClasses[i].methods) :
      ~restClasses[i].methods[j].isStatic =>
        IF restClasses[i].ctor.present
        THEN IsCrossProduct(restClasses[i].methods[j].routes,
                            restClasses[i].ctor.routes, MethodRoutes(i, j))
        ELSE restClasses[i].methods[j].routes = MethodRoutes(i, j)

\* Witness: an instance method with two routes in a class whose constructor
\* has two routes got four routes, one of them '/:/a' from '/:/' and '/a'.
C6_Witness ==
  /\ restClasses # <<>>
  /\ restClasses[1].ctor.present
  /\ Len(restClasses[1].ctor.routes) = 2
  /\ ~restClasses[1].methods[1].isStatic
  /\ Len(restClasses[1].methods[1].routes) = 4
  /\ Route(GET, << "/", ":", "/", "a" >>) \in AsSet(restClasses[1].methods[1].routes)

(***************************************************************************)
(* Dispatch: static methods with declared routes, and requests             *)
(***************************************************************************)

DispatchVerbs == {<<>>, GET, << "P", "U", "T" >>}

DispatchPaths ==
  {<< "/", "a" >>, << "/", ":" >>, << "/", "a", "/", ":" >>, << "/", ":", "/", "a" >>}

DispatchMethods ==
  UNION {{[j \in 1..n |-> SharedMethod(MethodName(j), TRUE,
                                       HttpObject(Route(vs[j], ps[j])))] :
            vs \in [1..n -> DispatchVerbs], ps \in [1..n -> DispatchPaths]} :
         n \in 1..MaxMethods}

Requests ==
  {[verb |-> v, path |-> q] :
     v \in {GET, PUT},
     q \in {<< "/", "a" >>, << "/", "b" >>, << "/", "a", "/", "a" >>,
            << "/", "a", "/", "b" >>, << "/", "b", "/", "a" >>}}

InitDispatch ==
  /\ \E ms \in DispatchMethods :
       remotes = Remotes(
         << SharedClass(<< "w" >>, NoHttp, "undefined", SharedCtor(NoHttp), ms) >>)
  /\ options = DefaultOptions("undefined")
  /\ restClasses = <<>>
  /\ router = <<>>
  /\ served = NotServed
  /\ RankIdle /\ JoinIdle /\ NormIdle /\ PipeIdle /\ MoreIdle

NextDispatch ==
  \/ CreateHandler
  \/ \E i \in 1..Len(router), req \in Requests : HandleRequest(i, req)

SpecDispatch == InitDispatch /\ [][NextDispatch]_vars

\* The layers of the router the served request went through.
ServedLayers == router[served.class].layers

LayerParts(layer) == Split(layer.path)

\* Some position holds a literal part in l and a placeholder part in p.
LiteralOverPlaceholder(l, p) ==
  \E k \in 1..Min(Len(LayerParts(l)), Len(LayerParts(p))) :
    IsLiteral(LayerParts(l)[k]) /\ IsWildcard(LayerParts(p)[k])

\* The first position at which the paths of l and p differ holds a literal
\* part in l and a placeholder part in p.
LiteralAtFirstDifference(l, p) ==
  \E k \in 1..Min(Len(LayerParts(l)), Len(LayerParts(p))) :
    /\ \A j \in 1..(k - 1) : LayerParts(l)[j] = LayerParts(p)[j]
    /\ IsLiteral(LayerParts(l)[k]) /\ IsWildcard(LayerParts(p)[k])

\* C1 as stated: a request matching a route with a literal part and a route
\* with a placeholder at the same position reaches the literal route,
\* whatever the verbs.
C1_Original ==
  served.done =>
    \A l, p \in 1..Len(ServedLayers) :
      (/\ Matches(ServedLayers[l], served.req)
       /\ Matches(ServedLayers[p], served.req)
       /\ LiteralOverPlaceholder(ServedLayers[l], ServedLayers[p]))
        => served.hit = l

\* C1 as amended: when the placeholder route's verb is not greater than the
\* literal route's and the literal stands at the first position where the two
\* paths differ, the literal route is registered first and the request stops
\* at it or before it, never at the placeholder route.
C1_LiteralFirst ==
  served.done =>
    \A l, p \in 1..Len(ServedLayers) :
      (/\ Matches(ServedLayers[l], served.req)
       /\ Matches(ServedLayers[p], served.req)
       /\ ~StrGreater(ServedLayers[p].verb, ServedLayers[l].verb)
       /\ LiteralAtFirstDifference(ServedLayers[l], ServedLayers[p]))
        => (l < p /\ served.hit >= 1 /\ served.hit <= l)

\* Witness: GET /a served by a router that holds get '/:' declared before
\* get '/a'; the request reached '/a'.
C1_Witness ==
  /\ served.done
  /\ served.req = [verb |-> GET, path |-> << "/", "a" >>]
  /\ Len(remotes.classes[1].methods) = 2
  /\ remotes.classes[1].methods[1].http.routes[1] = Route(GET, << "/", ":" >>)
  /\ remotes.classes[1].methods[2].http.routes[1] = Route(GET, << "/", "a" >>)
  /\ ServedLayers[served.hit].path = << "/", "a" >>
  /\ served.hit = 1

(***************************************************************************)
(* Pipeline: concurrent requests to one method handler                     *)
(***************************************************************************)

MaxRequests == 2

InitPipeline ==
  /\ method \in [isStatic : BOOLEAN, rest : [before : BOOLEAN, after : BOOLEAN]]
  /\ reqs = [r \in 1..MaxRequests |-> IdleRequest]
  /\ RankIdle /\ JoinIdle /\ NormIdle /\ RegIdle /\ MoreIdle

\* Lines 485-488, restStaticMethodHandler: a context of its own for the
\* request, then _invokeMethod.
RestStaticMethodHandler(r) ==
  /\ method.isStatic
  /\ reqs[r].pc = "idle"
  /\ reqs' = [reqs EXCEPT ![r] = InvokeMethod(@, method)]
  /\ UNCHANGED << method, rankVars, joinVars, normVars, regVars, moreVars >>

\* Lines 495-499, restPrototypeMethodHandler: a context of its own for the
\* request, then the shared constructor is invoked.
RestPrototypeMethodHandler(r) ==
  /\ ~method.isStatic
  /\ reqs[r].pc = "idle"
  /\ reqs' = [reqs EXCEPT ![r].pc = "ctor"]
  /\ UNCHANGED << method, rankVars, joinVars, normVars, regVars, moreVars >>

\* Lines 499-510: the shared constructor calls back; its error is kept on
\* the context, its instance otherwise, and _invokeMethod is called.
SharedCtorCallback(r, err) ==
  /\ reqs[r].pc = "ctor"
  /\ reqs' = [reqs EXCEPT ![r] = SharedCtorDone([@ EXCEPT !.ctor = err], err, method)]
  /\ UNCHANGED << method, rankVars, joinVars, normVars, regVars, moreVars >>

\* A step of the series (rest.before, invokeMethodInContext, rest.after)
\* calls back; async.series starts the next step or calls the final callback
\* of lines 538-545, which calls next(err) or starts ctx.done.
StepCallback(r, err) ==
  /\ reqs[r].pc \in {"before", "invoke", "after"}
  /\ err \in StepOutcomes(reqs[r].pc, reqs[r].ctx)
  /\ LET q == [reqs[r] EXCEPT
                 !.signals = Append(@, [stage |-> reqs[r].pc, err |-> err])]
         then == AfterStep(Steps(method), reqs[r].pc, err)
     IN  reqs' = [reqs EXCEPT ![r] =
           IF then.kind = "step"
           THEN [q EXCEPT !.pc = then.stage, !.started = Append(@, then.stage)]
           ELSE SeriesDone(q, then.err)]
  /\ UNCHANGED << method, rankVars, joinVars, normVars, regVars, moreVars >>

\* Lines 540-544: ctx.done calls back; an error goes to next, otherwise the
\* request is handled and next is not called.
DoneCallback(r, err) ==
  /\ reqs[r].pc = "done"
  /\ reqs' = [reqs EXCEPT ![r] =
       IF err # Ok
       THEN [@ EXCEPT !.pc = "next",
                      !.signals = Append(@, [stage |-> "done", err |-> err]),
                      !.nextArgs = Append(@, err)]
       ELSE [@ EXCEPT !.pc = "handled",
                      !.signals = Append(@, [stage |-> "done", err |-> err])]]
  /\ UNCHANGED << method, rankVars, joinVars, normVars, regVars, moreVars >>

NextPipeline ==
  \E r \in 1..MaxRequests :
    \/ RestStaticMethodHandler(r)
    \/ RestPrototypeMethodHandler(r)
    \/ \E err \in {Ok, "ctorError"} : SharedCtorCallback(r, err)
    \/ \E err \in {Ok, "beforeError", "invokeError", "afterError", "ctorError"} :
         StepCallback(r, err)
    \/ \E err \in {Ok, "doneError"} : DoneCallback(r, err)

SpecPipeline == InitPipeline /\ [][NextPipeline]_vars

\* The stages of a request in the order C9 gives them.
StageOrder ==
  SelectSeq(<< "before", "invoke", "after", "done" >>,
            LAMBDA st : /\ st = "before" => method.rest.before
                        /\ st = "after" => method.rest.after)

\* C9: for every request, in every interleaving, the stages started so far
\* are an initial part of before (if declared), invoke, after (if declared),
\* done, and each stage but the first started after the one before it had
\* signalled success.
C9_StagesInOrder ==
  \A r \in 1..Len(reqs) :
    /\ Len(reqs[r].started) <= Len(StageOrder)
    /\ reqs[r].started = SubSeq(StageOrder, 1, Len(reqs[r].started))
    /\ \A k \in 2..Len(reqs[r].started) :
         /\ Len(reqs[r].signals) >= k - 1
         /\ reqs[r].signals[k - 1] = [stage |-> reqs[r].started[k - 1], err |-> Ok]

\* Witness: a request with both hooks is finalized while another request is
\* still waiting for its before hook.
C9_Witness ==
  /\ method.rest.before /\ method.rest.after
  /\ \E r, o \in 1..Len(reqs) :
       /\ reqs[r].pc = "handled"
       /\ reqs[r].started = << "before", "invoke", "after", "done" >>
       /\ reqs[o].pc = "before"

\* C10: an error signalled by a stage is the last signal of its request; no
\* stage started after it, no stage started twice, and next was called once,
\* with that error; without an error next was not called.
C10_FailureShortCircuit ==
  \A r \in 1..Len(reqs) :
    /\ \A k \in 1..Len(reqs[r].signals) :
         reqs[r].signals[k].err # Ok =>
           /\ k = Len(reqs[r].signals)
           /\ Len(reqs[r].started) = k
           /\ reqs[r].started[k] = reqs[r].signals[k].stage
           /\ reqs[r].nextArgs = << reqs[r].signals[k].err >>
    /\ \A k, l \in 1..Len(reqs[r].started) :
         reqs[r].started[k] = reqs[r].started[l] => k = l
    /\ (\A k \in 1..Len(reqs[r].signals) : reqs[r].signals[k].err = Ok)
         => reqs[r].nextArgs = <<>>

\* Witness: the before hook of a request failed; invocation, after hook and
\* finalize did not start and next got the hook's error.
C10_Witness ==
  /\ method.rest.before /\ method.rest.after
  /\ \E r \in 1..Len(reqs) :
       /\ reqs[r].signals = << [stage |-> "before", err |-> "beforeError"] >>
       /\ reqs[r].started = << "before" >>
       /\ reqs[r].nextArgs = << "beforeError" >>

\* The error the last signal of request r carries, Ok when no stage failed.
StageError(r) ==
  IF reqs[r].signals # <<>> /\ reqs[r].signals[Len(reqs[r].signals)].err # Ok
  THEN reqs[r].signals[Len(reqs[r].signals)].err
  ELSE Ok

\* C11: after the shared constructor of a request failed, its error is on
\* ctx.sharedCtorError and stays there, ctx.instance is unset, the pipeline
\* has started with its first stage (the before hook when one is declared,
\* the invocation otherwise) and next is called only when a stage has failed,
\* with that stage's error; after the constructor succeeded ctx.instance is
\* set and ctx.sharedCtorError is unset; while the constructor has not called
\* back nothing has started and next was not called.
C11_DeferredCtorError ==
  \A r \in 1..Len(reqs) :
    /\ reqs[r].ctor = "ctorError" =>
         /\ reqs[r].ctx.sharedCtorError = "ctorError"
         /\ reqs[r].ctx.instance = Unset
         /\ reqs[r].started # <<>>
         /\ reqs[r].started[1] = Steps(method)[1]
         /\ reqs[r].nextArgs =
              (IF StageError(r) # Ok THEN << StageError(r) >> ELSE <<>>)
    /\ reqs[r].ctor = Ok =>
         /\ reqs[r].ctx.instance = "inst"
         /\ reqs[r].ctx.sharedCtorError = Unset
    /\ reqs[r].pc = "ctor" =>
         /\ reqs[r].ctor = "none"
         /\ reqs[r].started = <<>>
         /\ reqs[r].nextArgs = <<>>
         /\ reqs[r].ctx = [sharedCtorError |-> Unset, instance |-> Unset]

\* Witness: the constructor failed for two requests of a method with a before
\* hook; for one the hook then failed with its own error, which next got
\* while the context still holds the constructor's error; the other went
\* through the hook and entered the invocation.
C11_Witness ==
  /\ ~method.isStatic /\ method.rest.before
  /\ \E r, o \in 1..Len(reqs) :
       /\ reqs[r].ctor = "ctorError"
       /\ reqs[r].signals = << [stage |-> "before", err |-> "beforeError"] >>
       /\ reqs[r].nextArgs = << "beforeError" >>
       /\ reqs[r].ctx.sharedCtorError = "ctorError"
       /\ reqs[o].ctor = "ctorError"
       /\ reqs[o].pc = "invoke"
       /\ reqs[o].started = << "before", "invoke" >>
       /\ reqs[o].nextArgs = <<>>

\* Every asynchronous operation a request has started calls back: the shared
\* constructor, the running step of the series and ctx.done.  When requests
\* arrive is left open.
PipelineFairness ==
  \A r \in 1..MaxRequests :
    /\ WF_vars(\E err \in {Ok, "ctorError"} : SharedCtorCallback(r, err))
    /\ WF_vars(\E err \in {Ok, "beforeError", "invokeError", "afterError", "ctorError"} :
                 StepCallback(r, err))
    /\ WF_vars(\E err \in {Ok, "doneError"} : DoneCallback(r, err))

SpecPipelineFair == InitPipeline /\ [][NextPipeline]_vars /\ PipelineFairness

\* The shared constructor of request r has failed.
CtorFailed(r) == reqs[r].ctor = "ctorError"

\* C12: a request whose shared constructor failed never starts ctx.done and
\* is never handled without an error, and it leads to a call of next with
\* an error: the constructor's or that of a stage.
C12_CtorErrorSurfaces ==
  /\ [](\A r \in 1..MaxRequests :
          CtorFailed(r) =>
            /\ reqs[r].pc \notin {"done", "handled"}
            /\ \A k \in 1..Len(reqs[r].started) : reqs[r].started[k] # "done"
            /\ reqs[r].pc = "next" =>
                 /\ Len(reqs[r].nextArgs) = 1
                 /\ reqs[r].nextArgs[1] \in {"ctorError", "beforeError", "invokeError"})
  /\ \A r \in 1..MaxRequests :
       CtorFailed(r) ~> (reqs[r].pc = "next" /\ reqs[r].nextArgs # <<>>)

\* Witness: the constructor of a request failed, the before hook succeeded
\* and the invocation signalled the constructor's error, which next got.
C12_Witness ==
  /\ ~method.isStatic /\ method.rest.before
  /\ \E r \in 1..Len(reqs) :
       /\ CtorFailed(r)
       /\ reqs[r].signals = << [stage |-> "before", err |-> Ok],
                               [stage |-> "invoke", err |-> "ctorError"] >>
       /\ reqs[r].nextArgs = << "ctorError" >>

(***************************************************************************)
(* Programmatic invocation: registrations, disabling, lookups and invoke   *)
(***************************************************************************)

\* Values of JavaScript as far as credentials and options need them.
JsNull == [kind |-> "null"]
JsString(str) == [kind |-> "string", str |-> str]

\* An options object; accessToken is the value of its property of that name,
\* JsUndefined when it has none.
OptionsObject(accessToken) == [kind |-> "object", accessToken |-> accessToken]

\* The credentials configured for all invocations (remotes.auth).
GlobalAuth == [kind |-> "object", bearer |-> JsString(<< "g" >>)]

\* Whether a value counts as true in a condition.
Truthy(v) ==
  CASE v.kind \in {"undefined", "null"} -> FALSE
    [] v.kind = "string" -> v.str # <<>>
    [] OTHER -> TRUE

\* v.accessToken for a value that is not undefined or null.
AccessTokenOf(v) ==
  IF v.kind = "object" /\ "accessToken" \in DOMAIN v THEN v.accessToken
  ELSE JsUndefined

\* The argument name invoke asks for (line 181).
OptionsArg == << "o", "p", "t", "i", "o", "n", "s" >>

\* Mutant: the caller's access token wins over the configured credentials.
getInvocationAuthCallerFirst(auth, passAccessToken, invocationOptions) ==
  LET accessToken == IF Truthy(invocationOptions)
                     THEN AccessTokenOf(invocationOptions)
                     ELSE invocationOptions
  IN  IF passAccessToken = "true" /\ Truthy(accessToken)
      THEN OptionsObject(accessToken)
      ELSE auth

\* Lines 144-160.  passAccessToken is the adapter's option.
getInvocationAuth(auth, passAccessToken, invocationOptions) ==
  IF Truthy(auth) \/ passAccessToken # "true" THEN auth
  ELSE LET accessToken == IF Truthy(invocationOptions)
                          THEN AccessTokenOf(invocationOptions)
                          ELSE invocationOptions
       IN  IF Truthy(accessToken) THEN OptionsObject(accessToken)
           ELSE JsUndefined

\* invokedArgs[i], undefined beyond the end of the array.
ArgAt(invokedArgs, i) ==
  IF i \in 1..Len(invokedArgs) THEN invokedArgs[i] ELSE JsUndefined

\* Mutant: the argument's name is compared as it is written.
getArgByNameCaseSensitive(accepts, argName, invokedArgs) ==
  IF \E i \in 1..Len(accepts) : accepts[i].arg = argName
  THEN ArgAt(invokedArgs, CHOOSE i \in 1..Len(accepts) :
                            /\ accepts[i].arg = argName
                            /\ \A j \in 1..(i - 1) : accepts[j].arg # argName)
  ELSE JsUndefined

\* Lines 671-682.  An argument without a name has arg = <<>>; a method
\* without declared arguments has accepts = <<>>.
getArgByName(accepts, argName, invokedArgs) ==
  LET named(i) == /\ accepts[i].arg # <<>>
                  /\ ToLowerCase(accepts[i].arg) = ToLowerCase(argName)
  IN  IF Len(accepts) = 0 THEN JsUndefined
      ELSE IF \E i \in 1..Len(accepts) : named(i)
           THEN ArgAt(invokedArgs, CHOOSE i \in 1..Len(accepts) :
                                     named(i) /\ \A j \in 1..(i - 1) : ~named(j))
           ELSE JsUndefined

\* A call of invoke that was not made yet.
IdleCall ==
  [pc |-> "idle", started |-> <<>>, signals |-> <<>>, callbackArgs |-> <<>>,
   auth |-> JsUndefined, resolvable |-> FALSE, cached |-> FALSE]

\* Mutant: the hooks and the invocation start whatever the lookup returned.
invokeStartUnresolved(call, restMethod, auth) ==
  [call EXCEPT !.pc = "before", !.started = << "before" >>, !.auth = auth]

\* Lines 177-190: without a method the callback gets the error of line 179,
\* otherwise the invocation is created with its credentials and the before
\* hooks start.
invokeStart(call, restMethod, auth) ==
  IF ~restMethod.present
  THEN [call EXCEPT !.pc = "called",
                    !.callbackArgs = Append(@, [err |-> "unknownMethod",
                                                result |-> "none"])]
  ELSE [call EXCEPT !.pc = "before", !.started = << "before" >>, !.auth = auth]

\* Mutant: the callback gets the results as soon as the invocation has
\* them, and the after hooks run after that.
invokeStageDoneEarlyCallback(call, err) ==
  LET c == [call EXCEPT !.signals = Append(@, [stage |-> call.pc, err |-> err])] IN
  IF err # Ok
  THEN [c EXCEPT !.pc = "called",
                 !.callbackArgs = Append(@, [err |-> err, result |-> "none"])]
  ELSE CASE call.pc = "before" ->
              [c EXCEPT !.pc = "invoke", !.started = Append(@, "invoke")]
         [] call.pc = "invoke" ->
              [c EXCEPT !.pc = "after", !.started = Append(@, "after"),
                        !.callbackArgs = Append(@, [err |-> Ok, result |-> "result"])]
         [] call.pc = "after" -> [c EXCEPT !.pc = "called"]

\* Lines 190-203, the callbacks of execHooks('before'), invocation.invoke
\* and execHooks('after'): an error goes to the callback of invoke at once;
\* otherwise the next stage starts, and after the after hooks the callback
\* gets the arguments the invocation called back with.
invokeStageDone(call, err) ==
  LET c == [call EXCEPT !.signals = Append(@, [stage |-> call.pc, err |-> err])] IN
  IF err # Ok
  THEN [c EXCEPT !.pc = "called",
                 !.callbackArgs = Append(@, [err |-> err, result |-> "none"])]
  ELSE CASE call.pc = "before" ->
              [c EXCEPT !.pc = "invoke", !.started = Append(@, "invoke")]
         [] call.pc = "invoke" ->
              [c EXCEPT !.pc = "after", !.started = Append(@, "after")]
         [] call.pc = "after" ->
              [c EXCEPT !.pc = "called",
                        !.callbackArgs = Append(@, [err |-> Ok, result |-> "result"])]

\* What the stage of a call can signal to its callback.
InvokeStageOutcomes(stage) ==
  CASE stage = "before" -> {Ok, "beforeError"}
    [] stage = "invoke" -> {Ok, "invokeError"}
    [] stage = "after" -> {Ok, "afterError"}

\* The full name of the i-th method of the class 'w', a static method.
FullNameOf(i) == StringName(<< "w" >>, SharedMethod(MethodName(i), TRUE, NoHttp))

\* The names looked up: those of the methods that are or can be registered.
LookupNames == {FullNameOf(i) : i \in 1..MaxMethods}

\* The full names of the methods the registry holds.
Registered ==
  UNION {{StringName(remotes.classes[i].name, remotes.classes[i].methods[j]) :
            j \in 1..Len(remotes.classes[i].methods)} :
         i \in 1..Len(remotes.classes)}

\* A method is added to the class after the adapter was created.
DefineMethod ==
  /\ Len(remotes.classes) = 1
  /\ Len(remotes.classes[1].methods) < MaxMethods
  /\ remotes' = [remotes EXCEPT !.classes[1].methods =
       Append(@, SharedMethod(MethodName(Len(@) + 1), TRUE, NoHttp))]
  /\ UNCHANGED << options, restClasses, router, served, idxVars, callVars,
                  rankVars, joinVars, normVars, pipeVars, authVars, chainVars, declVars, listVars >>

\* sharedClass.disableMethodByName for a registered method.
DisableMethod(name) ==
  /\ name \in Registered \ disabled
  /\ disabled' = disabled \cup {name}
  /\ UNCHANGED << listsDisabled, cache, looked, regVars, callVars,
                  rankVars, joinVars, normVars, pipeVars, authVars, chainVars, declVars, listVars >>

\* The method is enabled again.
EnableMethod(name) ==
  /\ name \in disabled
  /\ disabled' = disabled \ {name}
  /\ UNCHANGED << listsDisabled, cache, looked, regVars, callVars,
                  rankVars, joinVars, normVars, pipeVars, authVars, chainVars, declVars, listVars >>

\* What this.getClasses() returns now (line 212).
ClassesNow == getClasses(ListedClasses(remotes.classes, disabled, listsDisabled), options)

\* The effect of one call of getRestMethodByName (lines 223-243) on the
\* adapter and the registry: the cache it leaves behind and, when it built
\* the cache, the routes getClasses patched.  out is what the call computed.
LookupEffect(out) ==
  /\ cache' = out.cache
  /\ remotes' = IF out.rebuilds = 0 THEN remotes
                ELSE [remotes EXCEPT !.classes =
                        ClassesAfterGetClasses(@, options, disabled, listsDisabled)]
  /\ restClasses' = IF out.rebuilds = 0 THEN restClasses ELSE ClassesNow

\* What looked keeps of a call of getRestMethodByName: the result together
\* with what held when the call was made: whether the registry held the
\* name, whether the method was enabled, whether a cache existed and held the
\* name before the call and whether it holds it after, and whether the
\* lookup before this one asked for the same name and found it in the cache
\* but disabled.
Looked(out, name) ==
  [done |-> TRUE, name |-> name, ret |-> out.ret, rebuilds |-> out.rebuilds,
   registered |-> name \in Registered,
   enabled |-> isMethodEnabled(disabled, name),
   builtBefore |-> cache.built,
   cachedBefore |-> CacheLookup(cache, name).present,
   cachedAfter |-> CacheLookup(out.cache, name).present,
   maskedBefore |-> /\ looked.done /\ looked.name = name
                    /\ looked.cachedBefore /\ ~looked.enabled]

GetRestMethodByName(name) ==
  LET out == getRestMethodByName(cache, ClassesNow, disabled, name) IN
  /\ LookupEffect(out)
  /\ looked' = Looked(out, name)
  /\ UNCHANGED << options, router, served, disabled, listsDisabled, callVars,
                  rankVars, joinVars, normVars, pipeVars, authVars, chainVars, declVars, listVars >>

MaxCalls == 2

\* The arguments invoke is called with: none, or an options object with an
\* access token.
InvokeArgs == {<<>>, << OptionsObject(JsString(<< "t" >>)) >>}

\* Lines 162-204 up to the start of the before hooks, for a call made with
\* a connection and a callback: the method is looked up (line 177), the
\* credentials are determined (lines 181-182) and the hooks start, or the
\* callback gets the error of line 179.  resolvable keeps whether the
\* registry held an enabled method of that name when the call was made,
\* cached whether the cache held the name then.
Invoke(c, name, args) ==
  LET out == getRestMethodByName(cache, ClassesNow, disabled, name)
      auth == IF out.ret.present
              THEN getInvocationAuth(remotes.auth, options.passAccessToken,
                                     getArgByName(out.ret.accepts, OptionsArg, args))
              ELSE JsUndefined
  IN  /\ calls[c].pc = "idle"
      /\ LookupEffect(out)
      /\ looked' = Looked(out, name)
      /\ calls' = [calls EXCEPT ![c] =
           invokeStart([@ EXCEPT !.resolvable =
                          name \in Registered /\ isMethodEnabled(disabled, name),
                                 !.cached = CacheLookup(cache, name).present],
                       out.ret, auth)]
      /\ UNCHANGED << options, router, served, disabled, listsDisabled,
                      rankVars, joinVars, normVars, pipeVars, authVars, chainVars, declVars, listVars >>

\* The stage a call waits for calls back (lines 190, 192, 198).
InvokeStageCallback(c, err) ==
  /\ calls[c].pc \in {"before", "invoke", "after"}
  /\ err \in InvokeStageOutcomes(calls[c].pc)
  /\ calls' = [calls EXCEPT ![c] = invokeStageDone(@, err)]
  /\ UNCHANGED << regVars, idxVars, rankVars, joinVars, normVars, pipeVars,
                  authVars, chainVars, declVars, listVars >>

\* An adapter with pass-through of access tokens over a registry without
\* credentials; the first method of the class declares an argument 'Options'.
InitInvoke ==
  /\ remotes = Remotes(
       << SharedClass(<< "w" >>, NoHttp, "undefined", NoCtor,
            << SharedMethodAccepting(MethodName(1), TRUE, NoHttp,
                 << [arg |-> << "O", "p", "t", "i", "o", "n", "s" >>] >>) >>) >>)
  /\ options = Options("undefined", "undefined", "undefined", "true")
  /\ restClasses = <<>>
  /\ router = <<>>
  /\ served = NotServed
  /\ disabled = {}
  /\ listsDisabled \in BOOLEAN
  /\ cache = NoCache
  /\ looked = NotLooked
  /\ calls = [c \in 1..MaxCalls |-> IdleCall]
  /\ RankIdle /\ JoinIdle /\ NormIdle /\ PipeIdle /\ AuthIdle /\ ChainIdle /\ DeclIdle /\ ListIdle

\* Lookups while methods are added, disabled and enabled again.
InitIndex == InitInvoke

NextIndex ==
  \/ DefineMethod
  \/ \E name \in LookupNames : DisableMethod(name)
  \/ \E name \in LookupNames : EnableMethod(name)
  \/ \E name \in LookupNames : GetRestMethodByName(name)

SpecIndex == InitIndex /\ [][NextIndex]_vars

\* The names invoke is called with: the method of the class and a name the
\* registry does not hold.
InvokeNames == {FullNameOf(1), FullNameOf(2)}

\* Calls of invoke while the method is disabled and enabled again.
NextInvoke ==
  \/ \E name \in InvokeNames : DisableMethod(name)
  \/ \E name \in InvokeNames : EnableMethod(name)
  \/ \E c \in 1..MaxCalls, name \in InvokeNames, args \in InvokeArgs :
       Invoke(c, name, args)
  \/ \E c \in 1..MaxCalls,
        err \in {Ok, "beforeError", "invokeError", "afterError"} :
       InvokeStageCallback(c, err)

SpecInvoke == InitInvoke /\ [][NextInvoke]_vars

\* C13: a lookup never returns a method that is disabled when the lookup is
\* made, whatever the cache held before, and it returns the method of that
\* name whenever the registry holds it and it is enabled, also when it was
\* disabled at an earlier lookup.
C13_DisabledMasked ==
  looked.done =>
    /\ ~looked.enabled => ~looked.ret.present
    /\ (looked.registered /\ looked.enabled) =>
         (looked.ret.present /\ looked.ret.fullName = looked.name)

\* Witness: a method was disabled after the cache was built and a lookup
\* found it in the cache and returned undefined; the method was enabled
\* again and the next lookup returned it from the same cache.
C13_Witness ==
  /\ looked.done
  /\ looked.maskedBefore
  /\ looked.enabled
  /\ looked.cachedBefore /\ looked.rebuilds = 0
  /\ looked.ret.present /\ looked.ret.fullName = looked.name

\* C14: a lookup returns the method of the name whenever the registry holds
\* an enabled method of that name, also when the cache was built before the
\* method was added; it builds the cache once when the cache does not hold
\* the name (or does not exist) and not at all when it does; and it returns
\* undefined only when the cache built by this very lookup does not hold the
\* name or the method is disabled.
C14_LazyRebuild ==
  looked.done =>
    /\ (looked.registered /\ looked.enabled) =>
         (looked.ret.present /\ looked.ret.fullName = looked.name)
    /\ looked.rebuilds = (IF looked.cachedBefore THEN 0 ELSE 1)
    /\ ~looked.ret.present =>
         \/ looked.rebuilds = 1 /\ ~looked.cachedAfter
         \/ ~looked.enabled
    /\ looked.ret.present => looked.cachedAfter

\* Witness: the cache was built before the second method was added; a
\* lookup of that method missed, built the cache again and returned it.
C14_Witness ==
  /\ looked.done
  /\ cache.built
  /\ looked.name = FullNameOf(2)
  /\ looked.builtBefore /\ ~looked.cachedBefore /\ looked.rebuilds = 1 /\ looked.cachedAfter
  /\ looked.ret.present /\ looked.ret.fullName = FullNameOf(2)
  /\ FullNameOf(1) \in DOMAIN cache.map

\* The stages of a call of invoke in their order.
InvokeStages == << "before", "invoke", "after" >>

\* C15: for every call of invoke that resolved its method the stages started
\* so far are an initial part of before hooks, invocation, after hooks, each
\* but the first started after the one before it had signalled success; the
\* callback was called at most once: with the error of the first stage that
\* failed, after which no stage started, or with the results once the after
\* hooks have signalled success, and not before.
C15_InvokeStagesInOrder ==
  \A c \in 1..Len(calls) :
    calls[c].started # <<>> =>
      /\ Len(calls[c].started) <= Len(InvokeStages)
      /\ calls[c].started = SubSeq(InvokeStages, 1, Len(calls[c].started))
      /\ Len(calls[c].signals) <= Len(calls[c].started)
      /\ \A k \in 1..Len(calls[c].signals) :
           /\ calls[c].signals[k].stage = calls[c].started[k]
           /\ k < Len(calls[c].started) => calls[c].signals[k].err = Ok
      /\ Len(calls[c].callbackArgs) <= 1
      /\ LET last == IF calls[c].signals = <<>> THEN [stage |-> "none", err |-> Ok]
                     ELSE calls[c].signals[Len(calls[c].signals)]
         IN  calls[c].callbackArgs =
               (IF last.err # Ok
                THEN << [err |-> last.err, result |-> "none"] >>
                ELSE IF last.stage = "after"
                     THEN << [err |-> Ok, result |-> "result"] >>
                     ELSE <<>>)

\* Witness: all three stages of a call succeeded and the callback got the
\* results.
C15_Witness ==
  \E c \in 1..Len(calls) :
    /\ calls[c].started = InvokeStages
    /\ calls[c].signals = << [stage |-> "before", err |-> Ok],
                             [stage |-> "invoke", err |-> Ok],
                             [stage |-> "after", err |-> Ok] >>
    /\ calls[c].callbackArgs = << [err |-> Ok, result |-> "result"] >>

\* C16: a call of invoke for a name the registry does not hold, or holds
\* disabled when the call is made, gives its callback the error of the
\* lookup, once, and starts no before hook, no invocation and no after hook.
C16_UnresolvedRejected ==
  \A c \in 1..Len(calls) :
    (calls[c].pc # "idle" /\ ~calls[c].resolvable) =>
      /\ calls[c].callbackArgs = << [err |-> "unknownMethod", result |-> "none"] >>
      /\ calls[c].started = <<>>
      /\ calls[c].signals = <<>>
      /\ calls[c].pc = "called"

\* Witness: invoke was called for a method the cache holds and that was
\* disabled after the cache was built; the callback got the error.
C16_Witness ==
  /\ disabled # {}
  /\ \E c \in 1..Len(calls) :
       /\ calls[c].cached
       /\ ~calls[c].resolvable
       /\ calls[c].callbackArgs = << [err |-> "unknownMethod", result |-> "none"] >>
       /\ calls[c].started = <<>>

(***************************************************************************)
(* Credentials: getArgByName and _getInvocationAuth on every input         *)
(***************************************************************************)

MaxArgs == 2

\* The names of the declared arguments: none, 'options' in two spellings and
\* another name.
ArgNames == {<<>>, OptionsArg, << "O", "p", "t", "i", "o", "n", "s" >>, << "a" >>}

RECURSIVE SeqsUpTo(_, _)
SeqsUpTo(S, n) ==
  IF n = 0 THEN {<<>>}
  ELSE SeqsUpTo(S, n - 1) \cup
       {Append(q, x) : q \in {t \in SeqsUpTo(S, n - 1) : Len(t) = n - 1}, x \in S}

\* The declared arguments of the invoked method.
AcceptsLists == SeqsUpTo({[arg |-> n] : n \in ArgNames}, MaxArgs)

\* The values the method is invoked with: nothing, options with a token,
\* with an empty token, without a token, and a string.
ArgValues ==
  {JsUndefined, OptionsObject(JsString(<< "t" >>)), OptionsObject(JsString(<<>>)),
   OptionsObject(JsUndefined), JsString(<< "t" >>)}

ArgLists == SeqsUpTo(ArgValues, MaxArgs)

InitAuth ==
  /\ authIn \in [given : {TRUE},
                 auth : {JsUndefined, JsNull, GlobalAuth},
                 passAccessToken : {"undefined", "true", "false"},
                 accepts : AcceptsLists,
                 args : ArgLists]
  /\ authOut = NotResolved
  /\ RankIdle /\ JoinIdle /\ NormIdle /\ RegIdle /\ PipeIdle
  /\ IdxIdle /\ CallIdle /\ ChainIdle /\ DeclIdle /\ ListIdle

\* Lines 181-182: the value of the argument 'options' and the credentials of
\* the invocation.
ResolveAuth ==
  /\ authOut = NotResolved
  /\ LET invokeOptions == getArgByName(authIn.accepts, OptionsArg, authIn.args) IN
     authOut' = [done |-> TRUE, invokeOptions |-> invokeOptions,
                 auth |-> getInvocationAuth(authIn.auth, authIn.passAccessToken,
                                            invokeOptions)]
  /\ UNCHANGED << authIn, rankVars, joinVars, normVars, regVars, pipeVars,
                  idxVars, callVars, chainVars, declVars, listVars >>

NextAuth == ResolveAuth

SpecAuth == InitAuth /\ [][NextAuth]_vars

\* Two names are the same but for the case of their letters.
SameIgnoringCase(a, b) ==
  /\ Len(a) = Len(b)
  /\ \A i \in 1..Len(a) : LowerChar(a[i]) = LowerChar(b[i])

\* The positions of the declared arguments named 'options'.
OptionsPositions ==
  {i \in 1..Len(authIn.accepts) : SameIgnoringCase(authIn.accepts[i].arg, OptionsArg)}

\* The value bound to the first declared argument named 'options'.
PerCallOptions ==
  IF OptionsPositions = {} THEN JsUndefined
  ELSE LET i == CHOOSE k \in OptionsPositions : \A l \in OptionsPositions : k <= l
       IN  IF i <= Len(authIn.args) THEN authIn.args[i] ELSE JsUndefined

\* The per-call options carry an access token.
CarriesToken(v) ==
  /\ v.kind = "object"
  /\ v.accessToken.kind = "string"
  /\ v.accessToken.str # <<>>

\* C19: the credentials are the configured ones whenever some are
\* configured; without configured ones they are built from the access token
\* of the per-call options when passAccessToken is on and the options carry a
\* token, and there are none in every other case.  The per-call options are
\* the value at the position of the first declared argument whose name is
\* 'options' in any case of letters.
C19_InvocationAuth ==
  authOut.done =>
    /\ authOut.invokeOptions = PerCallOptions
    /\ IF authIn.auth = GlobalAuth
       THEN authOut.auth = GlobalAuth
       ELSE IF authIn.passAccessToken = "true" /\ CarriesToken(PerCallOptions)
            THEN authOut.auth =
                   [kind |-> "object", accessToken |-> PerCallOptions.accessToken]
            ELSE authOut.auth \in {JsUndefined, JsNull}

\* Witness: no configured credentials, passAccessToken on, and the second
\* declared argument is 'Options', bound to options with a token: the
\* credentials carry that token.
C19_Witness ==
  /\ authOut.done
  /\ authIn.auth = JsUndefined /\ authIn.passAccessToken = "true"
  /\ authIn.accepts = << [arg |-> << "a" >>],
                         [arg |-> << "O", "p", "t", "i", "o", "n", "s" >>] >>
  /\ authIn.args = << JsString(<< "t" >>), OptionsObject(JsString(<< "t" >>)) >>
  /\ authOut.auth = OptionsObject(JsString(<< "t" >>))

(***************************************************************************)
(* The handler chain: two classes, every option, requests of every kind    *)
(***************************************************************************)

\* The class 'a', mounted on '/a', with a method on GET /c.
ChainClassA ==
  SharedClass(<< "a" >>, NoHttp, "undefined", NoCtor,
    << SharedMethod(MethodName(1), TRUE, HttpObject(Route(GET, << "/", "c" >>))) >>)

\* The class 'b' with a method on /c for every verb, mounted on '/b' or as
\* its http declares.
ChainClassB(http) ==
  SharedClass(<< "b" >>, http, "undefined", NoCtor,
    << SharedMethod(MethodName(1), TRUE, HttpObject(Route(<<>>, << "/", "c" >>))) >>)

ChainClassHttp ==
  {NoHttp,
   HttpObject(Route(<<>>, << "/", "a", "/", "b" >>)),
   HttpObject(Route(<<>>, << "/", "a" >>))}

CorsValues == {"undefined", "null", "false", "true", "object"}

OptionValues == {"undefined", "true", "false"}

ChainRequests ==
  {[verb |-> v, path |-> q, body |-> b] :
     v \in {GET, PUT},
     q \in {<< "/", "a", "/", "c" >>, << "/", "a", "/", "d" >>,
            << "/", "a", "/", "b", "/", "c" >>, << "/", "a", "/", "b", "/", "d" >>,
            << "/", "b", "/", "c" >>, << "/", "b", "/", "d" >>,
            << "/", "e" >>, << "/", "a" >>},
     b \in {"parsed", "malformed"}}

InitChain ==
  /\ \E h \in ChainClassHttp, cors \in CorsValues, aFirst \in BOOLEAN :
       remotes = RemoteObjects(
         IF aFirst THEN << ChainClassA, ChainClassB(h) >>
         ELSE << ChainClassB(h), ChainClassA >>,
         JsUndefined, cors)
  /\ \E u \in OptionValues, e \in OptionValues :
       options = Options("undefined", u, e, "undefined")
  /\ restClasses = <<>>
  /\ router = <<>>
  /\ served = NotServed
  /\ ChainIdle
  /\ RankIdle /\ JoinIdle /\ NormIdle /\ PipeIdle /\ IdxIdle /\ CallIdle /\ AuthIdle
  /\ DeclIdle /\ ListIdle

NextChain ==
  \/ CreateHandler
  \/ \E req \in ChainRequests : ServeRequest(req)

SpecChain == InitChain /\ [][NextChain]_vars

\* createHandler has been called.
HandlerCreated == root # <<>> \/ thrown # NotThrown

\* Nothing has been registered and no router was returned.
NothingRegistered == root = <<>> /\ router = <<>> /\ restClasses = <<>>

\* C18 as stated: createHandler throws and registers nothing whenever the
\* cors option is present, whatever its value, and proceeds when it is absent.
C18_Original ==
  HandlerCreated =>
    IF remotes.options.cors # "undefined"
    THEN thrown = "corsError" /\ NothingRegistered
    ELSE thrown = NotThrown /\ root # <<>>

\* C18 as amended: createHandler throws and registers nothing whenever the
\* cors option is present with a value other than false, and proceeds when
\* the option is absent or false.
C18_CorsRejected ==
  HandlerCreated =>
    IF remotes.options.cors \notin {"undefined", "false"}
    THEN thrown = "corsError" /\ NothingRegistered
    ELSE thrown = NotThrown /\ root # <<>>

\* Witness: createHandler was called with cors: null and threw.
C18_Witness ==
  /\ remotes.options.cors = "null"
  /\ thrown = "corsError"
  /\ NothingRegistered

\* The routers of the root chain whose mount the path of req falls under.
Under(req) ==
  {i \in 1..Len(root) : root[i].kind = "router" /\ MountMatches(root[i].mount, req.path)}

\* The first of them.
FirstUnder(req) == CHOOSE i \in Under(req) : \A j \in Under(req) : i <= j

\* Some method handler of the router root[i] is registered for the verb of
\* req and its path below the mount.
MethodMatches(i, req) ==
  \E k \in 1..Len(root[i].chain) :
    /\ root[i].chain[k].kind = "method"
    /\ Matches(root[i].chain[k].layer,
               [verb |-> req.verb, path |-> BelowMount(root[i].mount, req.path)])

\* In every class router the method handlers precede the handler of unknown
\* methods, in the root every class router precedes the handler of unknown
\* URLs, and the error handler is the last handler of the root.
ChainInOrder ==
  /\ \A i \in 1..Len(root) : \A k, l \in 1..Len(root[i].chain) :
       (root[i].chain[k].kind = "method" /\ root[i].chain[l].kind = "remoteMethodNotFound")
         => k < l
  /\ \A i, j \in 1..Len(root) :
       (root[i].kind = "router" /\ root[j].kind = "urlNotFound") => i < j
  /\ \A i \in 1..Len(root) : root[i].kind = "errorHandler" => i = Len(root)

\* Where a request goes when unknown paths are handled: under the mount of a
\* class it enters the first such class router only and is handled by a
\* method of it or gets the 404 of that class; under no mount it gets the
\* 404 of the root; and it does not leave the adapter with next().
Contained(req, out) ==
  /\ IF Under(req) = {}
     THEN out.entered = <<>> /\ out.err = NotFoundError("url")
     ELSE /\ out.entered = << root[FirstUnder(req)].class >>
          /\ IF MethodMatches(FirstUnder(req), req)
             THEN out.end = "method" /\ out.err = NoError
             ELSE out.err = NotFoundError("class") /\ out.hit = <<>>
  /\ out.end # "next"
  /\ out.err # NoError => out.end \in {"errorHandler", "nextError"}

\* C17 as stated: with unknown paths handled every request is contained,
\* and the chain is in order.
C17_Original ==
  /\ ChainInOrder
  /\ (rootServed.done /\ shouldHandleUnknownPaths(options)) =>
       Contained(rootServed.req, rootServed.out)

\* C17 as amended: with unknown paths handled every request the body parsers
\* pass on is contained; a request whose body the json parser rejects enters
\* no class router and leaves with the parser's error; and the chain is in
\* order.
C17_Containment ==
  /\ ChainInOrder
  /\ (rootServed.done /\ shouldHandleUnknownPaths(options)) =>
       IF rootServed.req.body = "parsed"
       THEN Contained(rootServed.req, rootServed.out)
       ELSE /\ rootServed.out.entered = <<>>
            /\ rootServed.out.err = ParseError
            /\ rootServed.out.end \in {"errorHandler", "nextError"}

\* Witness: the class 'b' is mounted on '/a/b' after the class 'a' on '/a';
\* GET /a/b/d falls under both, enters the router of 'a' only, matches none
\* of its methods and gets its 404, which the error handler takes.
C17_Witness ==
  /\ rootServed.done
  /\ rootServed.req = [verb |-> GET, path |-> << "/", "a", "/", "b", "/", "d" >>,
                       body |-> "parsed"]
  /\ Cardinality(Under(rootServed.req)) = 2
  /\ rootServed.out.entered = << 1 >>
  /\ router[1].name = << "a" >>
  /\ rootServed.out.err = NotFoundError("class")
  /\ rootServed.out.end = "errorHandler"

(***************************************************************************)
(* The registry under route derivation by two adapters                     *)
(***************************************************************************)

\* What the method of the class declares as its http.
SharedMethodHttp ==
  {NoHttp,
   HttpObject(Route(<<>>, <<>>)),
   HttpObject(Route(GET, << "/", "a", "A" >>)),
   HttpObject(Route(<< "G", "E", "T" >>, << "/", "a" >>))}

InitShared ==
  /\ \E classFlag \in Flags, h \in SharedMethodHttp :
       remotes = Remotes(
         << SharedClass(<< "w" >>, NoHttp, classFlag, NoCtor,
              << SharedMethod(MethodName(1), TRUE, h) >>) >>)
  /\ declared = remotes.classes
  /\ \E f \in Flags : options = DefaultOptions(f)
  /\ restClasses = <<>>
  /\ router = <<>>
  /\ served = NotServed
  /\ RankIdle /\ JoinIdle /\ NormIdle /\ PipeIdle
  /\ IdxIdle /\ CallIdle /\ AuthIdle /\ ChainIdle /\ ListIdle

\* Lines 608-612 called by another adapter created for the same registry
\* with its own options: its RestClasses are its own, the declared routes it
\* patches are those of the registry.
OtherAdapterGetClasses(flag) ==
  /\ remotes.classes # <<>>
  /\ remotes' = [remotes EXCEPT !.classes =
       [i \in 1..Len(remotes.classes) |->
          SharedClassAfterRestClass(remotes.classes[i], DefaultOptions(flag))]]
  /\ UNCHANGED << options, restClasses, router, served,
                  rankVars, joinVars, normVars, pipeVars, moreVars >>

NextShared ==
  \/ GetClasses
  \/ CreateHandler
  \/ \E flag \in Flags : OtherAdapterGetClasses(flag)

SpecShared == InitShared /\ [][NextShared]_vars

\* The routes this adapter derived last are those of the classes as
\* declared, under this adapter's options.
DerivedFromDeclared ==
  restClasses # <<>> => restClasses = getClasses(declared, options)

\* C20: whatever calls of getClasses and createHandler were made, by this
\* adapter or by another one with other options, the classes, shared
\* constructors and methods of the registry are as they were declared, and
\* the routes derived under this adapter's options are those of the
\* declared classes under these options.
C20_RegistryReadOnly ==
  /\ remotes.classes = declared
  /\ DerivedFromDeclared

(***************************************************************************)
(* The values sortRoutes returns                                           *)
(***************************************************************************)

\* C21: for every pair of routes sortRoutes returns -1, 0 or 1, in both
\* directions, also when the common parts of the two paths tie and the
\* numbers of parts differ by more than one.
C21_ComparatorRange ==
  rankOut.done =>
    /\ rankOut.ab \in {-1, 0, 1}
    /\ rankOut.ba \in {-1, 0, 1}

(***************************************************************************)
(* Who ends a request a method handler was called for                      *)
(***************************************************************************)

\* The errors the stages and ctx.done of request r have signalled so far.
ErrorsSignalled(r) ==
  {reqs[r].signals[k].err : k \in 1..Len(reqs[r].signals)} \ {Ok}

\* C22: for every request a method handler (static or prototype) was called
\* for, next has been called at most once; it has been called exactly when a
\* stage or ctx.done has signalled an error, and then with that error; a
\* request ctx.done succeeded for is handled and next was not called for it;
\* and while the request is with the shared constructor, a stage or ctx.done,
\* next has not been called.
C22_NextOwnership ==
  \A r \in 1..Len(reqs) :
    /\ Len(reqs[r].nextArgs) <= 1
    /\ (reqs[r].nextArgs # <<>>) <=> (ErrorsSignalled(r) # {})
    /\ \A k \in 1..Len(reqs[r].nextArgs) :
         ErrorsSignalled(r) = {reqs[r].nextArgs[k]}
    /\ (reqs[r].pc = "next") <=> (reqs[r].nextArgs # <<>>)
    /\ (reqs[r].pc = "handled") <=>
         (reqs[r].signals # <<>>
            /\ reqs[r].signals[Len(reqs[r].signals)] = [stage |-> "done", err |-> Ok])
    /\ reqs[r].pc = "handled" => reqs[r].nextArgs = <<>>

\* Witness: of two requests to a method with both hooks, one went through
\* every stage and was handled without a call of next, and for the other
\* every stage succeeded and ctx.done failed, whose error next got, once.
C22_Witness ==
  /\ method.rest.before /\ method.rest.after
  /\ \E r, o \in 1..Len(reqs) :
       /\ reqs[r].pc = "handled"
       /\ reqs[r].nextArgs = <<>>
       /\ reqs[o].pc = "next"
       /\ reqs[o].started = << "before", "invoke", "after", "done" >>
       /\ reqs[o].signals[4] = [stage |-> "done", err |-> "doneError"]
       /\ reqs[o].nextArgs = << "doneError" >>

(***************************************************************************)
(* allRoutes: the listing of the routes                                    *)
(***************************************************************************)

\* Line 592, path.replace(/\/\//g, '/'): from left to right every '//' becomes
\* one '/', and the search goes on behind the replaced pair.
RECURSIVE ReplaceDoubleSlashes(_)
ReplaceDoubleSlashes(path) ==
  IF Len(path) < 2 THEN path
  ELSE IF path[1] = "/" /\ path[2] = "/"
       THEN Slash \o ReplaceDoubleSlashes(SubSeq(path, 3, Len(path)))
       ELSE << path[1] >> \o ReplaceDoubleSlashes(Tail(path))

\* Lines 580-592: the path addRoute lists for a path below currentRoot.
addRoutePath(currentRoot, path) ==
  LET full == IF path = Slash \/ path = Slash \o Slash THEN currentRoot
              ELSE currentRoot \o path
      cut == IF full # <<>> /\ full[Len(full)] = "/"
             THEN SubSeq(full, 1, Len(full) - 1) ELSE full
  IN  ReplaceDoubleSlashes(cut)

\* Lines 563-574: the paths handed to addRoute for one route of a method:
\* the route's path for a static method, and for an instance method the path
\* of each route of method.sharedCtor followed by the route's path.
PathsOfMethodRoute(sc, sm, route, adapterOptions) ==
  IF sm.isStatic THEN << route.path >>
  ELSE LET ctorRoutes == getRoutes(sc.sharedCtor, sc.options, adapterOptions)
       IN  [l \in 1..Len(ctorRoutes) |-> ctorRoutes[l].path \o route.path]

\* Lines 555-576 for one class: an entry per class route, method, method
\* route and, for an instance method, constructor route, in this order.
RoutesOfClass(sc, adapterOptions) ==
  LET classRoutes == getRoutes(sc, sc.options, adapterOptions) IN
  Concat([c \in 1..Len(classRoutes) |->
    Concat([j \in 1..Len(sc.methods) |->
      LET routes == getRoutes(sc.methods[j], sc.options, adapterOptions) IN
      Concat([k \in 1..Len(routes) |->
        LET paths == PathsOfMethodRoute(sc, sc.methods[j], routes[k], adapterOptions)
        IN  [l \in 1..Len(paths) |->
               [verb |-> routes[k].verb,
                path |-> addRoutePath(classRoutes[c].path, paths[l]),
                method |-> StringName(sc.name, sc.methods[j])]]])])])

\* Line 568: getRoutes(method.sharedCtor) reads the http of undefined and
\* throws a TypeError when the class has no shared constructor; it is reached
\* for an instance method with a route, in a class with a route.
ThrowsInClass(sc, adapterOptions) ==
  /\ ~sc.sharedCtor.present
  /\ getRoutes(sc, sc.options, adapterOptions) # <<>>
  /\ \E j \in 1..Len(sc.methods) :
       /\ ~sc.methods[j].isStatic
       /\ getRoutes(sc.methods[j], sc.options, adapterOptions) # <<>>

\* Lines 549-578: what allRoutes returns for the classes of the registry.
allRoutes(classes, adapterOptions) ==
  IF \E i \in 1..Len(classes) : ThrowsInClass(classes[i], adapterOptions)
  THEN [done |-> TRUE, thrown |-> TRUE, routes |-> <<>>]
  ELSE [done |-> TRUE, thrown |-> FALSE,
        routes |-> Concat([i \in 1..Len(classes) |->
                             RoutesOfClass(classes[i], adapterOptions)])]

\* The descriptor of a class after allRoutes went through it: getRoutes has
\* patched the declared routes of the class (line 557), with a class route
\* those of the methods up to the one line 568 throws for (line 563), and
\* those of the shared constructor when an instance method has a route.
SharedClassAfterAllRoutes(sc, adapterOptions) ==
  LET reached == getRoutes(sc, sc.options, adapterOptions) # <<>>
      hasRoute(j) == getRoutes(sc.methods[j], sc.options, adapterOptions) # <<>>
      throwsAt(j) == ~sc.sharedCtor.present /\ ~sc.methods[j].isStatic /\ hasRoute(j)
  IN  [sc EXCEPT
         !.http = HttpAfterGetRoutes(sc, sc.options, adapterOptions),
         !.sharedCtor =
            IF /\ sc.sharedCtor.present
               /\ reached
               /\ \E j \in 1..Len(sc.methods) : ~sc.methods[j].isStatic /\ hasRoute(j)
            THEN [sc.sharedCtor EXCEPT
                    !.http = HttpAfterGetRoutes(sc.sharedCtor, sc.options,
                                                adapterOptions)]
            ELSE sc.sharedCtor,
         !.methods = [j \in 1..Len(sc.methods) |->
            IF reached /\ \A h \in 1..(j - 1) : ~throwsAt(h)
            THEN [sc.methods[j] EXCEPT
                    !.http = HttpAfterGetRoutes(sc.methods[j], sc.options,
                                                adapterOptions)]
            ELSE sc.methods[j]]]

\* Lines 549-578 as a call: the listing is built, and the declared routes of
\* the registry are patched on the way, class by class up to the first class
\* line 568 throws for.
AllRoutes ==
  /\ remotes.classes # <<>>
  /\ listing' = allRoutes(remotes.classes, options)
  /\ remotes' = [remotes EXCEPT !.classes =
       [i \in 1..Len(remotes.classes) |->
          IF \A h \in 1..(i - 1) : ~ThrowsInClass(remotes.classes[h], options)
          THEN SharedClassAfterAllRoutes(remotes.classes[i], options)
          ELSE remotes.classes[i]]]
  /\ UNCHANGED << options, restClasses, router, served,
                  rankVars, joinVars, normVars, pipeVars,
                  idxVars, callVars, authVars, chainVars, declVars >>

(***************************************************************************)
(* The listing against the route table of createHandler                    *)
(***************************************************************************)

\* The class is mounted on '/w', on '/', or on '/w/' and on '/c'.
ListClassHttp ==
  {NoHttp,
   HttpObject(Route(<<>>, Slash)),
   HttpArray(<< Route(<<>>, << "/", "w", "/" >>), Route(<<>>, << "/", "c" >>) >>)}

\* No shared constructor, or one on '/prototype', on '/', or on '/:' and '/c'.
ListCtors ==
  {NoCtor,
   SharedCtor(NoHttp),
   SharedCtor(HttpObject(Route(<<>>, Slash))),
   SharedCtor(HttpArray(<< Route(<<>>, << "/", ":" >>),
                           Route(GET, << "/", "c" >>) >>))}

\* A method on its default route, on '/', on 'a' (declared without the
\* leading '/'), or on '/a' and '/:/'.
ListMethodHttp ==
  {NoHttp,
   HttpObject(Route(GET, Slash)),
   HttpObject(Route(<<>>, << "a" >>)),
   HttpArray(<< Route(GET, << "/", "a" >>), Route(DEL, << "/", ":", "/" >>) >>)}

ListMethods ==
  UNION {{[j \in 1..n |-> SharedMethod(MethodName(j), st[j], ht[j])] :
            st \in [1..n -> BOOLEAN], ht \in [1..n -> ListMethodHttp]} :
         n \in 1..MaxMethods}

InitListing ==
  /\ \E h \in ListClassHttp, c \in ListCtors, ms \in ListMethods :
       remotes = Remotes(<< SharedClass(<< "w" >>, h, "undefined", c, ms) >>)
  /\ \E f \in {"undefined", "true"} : options = DefaultOptions(f)
  /\ restClasses = <<>>
  /\ router = <<>>
  /\ served = NotServed
  /\ RankIdle /\ JoinIdle /\ NormIdle /\ PipeIdle /\ MoreIdle

NextListing == CreateHandler \/ AllRoutes

SpecListing == InitListing /\ [][NextListing]_vars

\* The routes createHandler registers, flattened: for every class, every
\* route the class router is mounted on, every RestMethod and every route of
\* the RestMethod (for an instance method one per method route and
\* constructor route), the verb of the route, the mount joined with the
\* route's path, without a trailing '/', and the method's qualified name.
RegisteredRoutes ==
  Concat([i \in 1..Len(restClasses) |->
    Concat([c \in 1..Len(restClasses[i].routes) |->
      Concat([j \in 1..Len(restClasses[i].methods) |->
        [k \in 1..Len(restClasses[i].methods[j].routes) |->
           [verb |-> restClasses[i].methods[j].routes[k].verb,
            path |-> StripTrailingSlash(
                       joinPaths(restClasses[i].routes[c].path,
                                 restClasses[i].methods[j].routes[k].path)),
            method |-> restClasses[i].methods[j].fullName]]])])])

\* The entries of the listing, their paths without a trailing '/'.
ListedRoutes ==
  [n \in 1..Len(listing.routes) |->
     [listing.routes[n] EXCEPT !.path = StripTrailingSlash(@)]]

\* How often e occurs in seq.
Occurrences(seq, e) == Cardinality({n \in 1..Len(seq) : seq[n] = e})

\* C23: once createHandler has registered the routes, allRoutes returns a
\* listing, and the listing has, for every class route, method route and
\* constructor route, one entry with the method route's verb, the method's
\* name and, up to a trailing '/', the path joinPaths gives for the class
\* route's path and the path of the registered RestMethod route, and it has
\* no other entry.
C23_ListingAgrees ==
  (listing.done /\ router # <<>>) =>
    /\ ~listing.thrown
    /\ Len(ListedRoutes) = Len(RegisteredRoutes)
    /\ \A e \in AsSet(ListedRoutes) \cup AsSet(RegisteredRoutes) :
         Occurrences(ListedRoutes, e) = Occurrences(RegisteredRoutes, e)

====
